---- MODULE Spec2Model ----
(***************************************************************************)
(* State-machine model of the fiducial-anchored surface measurement        *)
(* pipeline of ez-snap: the auto-capture session controller               *)
(* (AutoCaptureManager), the consensus processor (ImageProcessor), the     *)
(* homography estimator (HomographyTransform) and the transform update of  *)
(* the cone scanning overlay.                                              *)
(*                                                                         *)
(* Numbers: times are milliseconds; alignment quality and confidences are  *)
(* fixed-point thousandths (0.8 is 800); pixel and millimetre coordinates  *)
(* are integers; a quotient the code leaves as a float is kept as an exact *)
(* fraction <<numerator, denominator>>.                                    *)
(***************************************************************************)
EXTENDS Integers, Sequences, FiniteSets, TLC

VARIABLES
    now,                  \* Date.now()
    currentSession,       \* AutoCaptureManager.currentSession
    lastCapturePosition,  \* AutoCaptureManager.lastCapturePosition
    captureCallbacks,     \* AutoCaptureManager.captureCallbacks (number subscribed)
    ret,                  \* the last call: operation, arguments, result
    succ,                 \* executeCapture calls on currentSession that returned true
    imageResults,         \* processScanSession: the per-image results
    processing,           \* processScanSession: consensus analysis and final cones
    detectedTrackers,     \* the markers given to calculateHomography / to the overlay
    transform,            \* HomographyTransform.transform
    isAligned,            \* ConeScanningOverlay: alignmentStatus.isAligned (prop)
    coordinateTransform,  \* ConeScanningOverlay: the coordinateTransform state
    isScanning,           \* ConeScanningOverlay: the isScanning state
    freshSeen,            \* history: some frame so far had all four markers fresh
    registry,             \* QRTrackerOverlay: the detectedTrackers state
    alignment,            \* QRTrackerOverlay: the alignmentStatus state
    trackedCones,         \* ConeDetector.trackedCones
    managerConfig,        \* AutoCaptureManager.config
    handed,               \* the session object given to onScanComplete, and whether
                          \* currentSession still refers to it
    completeCalls,        \* onScanComplete calls made for the current session
    scans                 \* the processScanSession calls running on the handed object

captureVars == <<now, currentSession, lastCapturePosition, captureCallbacks, ret, succ>>
sessionVars == <<currentSession, lastCapturePosition, captureCallbacks, succ>>
consensusVars == <<imageResults, processing>>
homographyVars == <<detectedTrackers, transform>>
overlayVars == <<isAligned, coordinateTransform, isScanning, freshSeen>>
trackerVars == <<registry, alignment>>
detectorVars == <<trackedCones>>
trackingVars == <<trackerVars, detectorVars>>
handoffVars == <<managerConfig, handed, completeCalls, scans>>
downstreamVars == <<consensusVars, homographyVars, overlayVars, trackingVars, handoffVars>>
vars == <<captureVars, downstreamVars>>

\* null for an object reference; an optional field is None or Some(value).
Null == [null |-> TRUE]
None == <<>>
Some(v) == <<v>>
Get(o) == o[1]

\* ------------------------------------------------------------------ bounds

MaxTicks == 1        \* clock ticks of two seconds after the first instant
MaxSubs == 1         \* subscriptions to the manager's capture events
MaxDet == 5          \* cone detections handed to the consensus analysis
MaxTrackers == 5     \* markers in the list handed to calculateHomography
MaxDetectScans == 4  \* scans of the marker tracker during which markers are in view
MaxConeFrames == 3   \* frames of 400 ms in the time the cone detector is followed
MaxResubscribes == 1 \* runs of the overlay's subscription effect after the first

StartTime == 5000    \* Date.now() at the first instant

\* ------------------------------------------------------------------ helpers

Max(a, b) == IF a >= b THEN a ELSE b
Min(a, b) == IF a <= b THEN a ELSE b
Abs(a) == IF a >= 0 THEN a ELSE -a

RECURSIVE SumSeq(_)
SumSeq(s) == IF s = <<>> THEN 0 ELSE Head(s) + SumSeq(Tail(s))

RECURSIVE GCD(_, _)
GCD(a, b) == IF b = 0 THEN a ELSE GCD(b, a % b)

\* The quotient n / d as a fraction in lowest terms; 0 / 0 (NaN) is <<0, 0>>.
Frac(n, d) ==
    IF d = 0 THEN <<0, 0>>
    ELSE LET g == GCD(Abs(n), Abs(d))
             sign == IF d < 0 THEN -1 ELSE 1
         IN  <<(sign * n) \div g, (sign * d) \div g>>

\* Math.sqrt on integers: the floor of the square root, found by bisection.
RECURSIVE SqrtBetween(_, _, _)
SqrtBetween(v, lo, hi) ==
    IF lo >= hi THEN lo
    ELSE LET mid == (lo + hi + 1) \div 2
         IN  IF mid * mid <= v THEN SqrtBetween(v, mid, hi)
             ELSE SqrtBetween(v, lo, mid - 1)

ISqrt(v) == SqrtBetween(v, 0, Min(v, 46340))

\* ------------------------------------------------------------------ config

TrackerID == {"QR_01", "QR_02", "QR_03", "QR_04"}
TrackerOrder == <<"QR_01", "QR_02", "QR_03", "QR_04">>

DEFAULT_AUTO_CAPTURE_CONFIG ==
    [minAlignmentQuality |-> 800,
     timeBetweenCaptures |-> 2000,
     movementThreshold   |-> 50,
     qualityThreshold    |-> 700]

config == DEFAULT_AUTO_CAPTURE_CONFIG

OPTIMAL_POSITIONS ==
    << [id |-> "center_top",   priority |-> 1],
       [id |-> "angle_ne",     priority |-> 2],
       [id |-> "angle_nw",     priority |-> 2],
       [id |-> "angle_se",     priority |-> 3],
       [id |-> "angle_sw",     priority |-> 3],
       [id |-> "center_close", priority |-> 4] >>

\* ------------------------------------------------------------------ inputs

Tracker(id, x, y) == [id |-> id, center |-> [x |-> x, y |-> y]]

\* Four markers at the corners of a square placed at (ox, oy).
TrackersAt(ox, oy) ==
    << Tracker("QR_01", ox, oy),
       Tracker("QR_02", ox + 200, oy),
       Tracker("QR_03", ox + 200, oy + 200),
       Tracker("QR_04", ox, oy + 200) >>

TL_Empty == <<>>
TL_A     == TrackersAt(0, 0)
TL_Near  == TrackersAt(30, 39)     \* centroid 49.2 px from TL_A's
TL_Edge  == TrackersAt(30, 40)     \* centroid exactly 50 px from TL_A's
TL_Three == SubSeq(TrackersAt(90, 0), 1, 3)  \* three markers, fractional centroid

Status(aligned, missing, stale) ==
    [isAligned |-> aligned, missingTrackers |-> missing, staleTrackers |-> stale]

ST_Aligned    == Status(TRUE, <<>>, <<>>)
ST_NotAligned == Status(FALSE, <<"QR_04">>, <<>>)
ST_Q800       == Status(TRUE, <<"QR_04">>, <<"QR_03">>)
ST_Q775       == Status(TRUE, <<>>, <<"QR_01", "QR_02", "QR_03">>)

\* What executeCapture is given: the frame's status, markers and picture.
CaptureFrames ==
    { [status |-> ST_Aligned, trackers |-> TL_A,     img |-> "imgA"],
      [status |-> ST_Q800,    trackers |-> TL_Empty, img |-> "imgE"] }

\* What processAlignment is given: a status and the markers.
GateInputs ==
    { <<ST_NotAligned, TL_Edge>>, <<ST_Q775, TL_Edge>>, <<ST_Q800, TL_Edge>>,
      <<ST_Aligned, TL_Empty>>, <<ST_Aligned, TL_A>>, <<ST_Aligned, TL_Near>>,
      <<ST_Aligned, TL_Edge>>, <<ST_Aligned, TL_Three>> }

\* The canvas of executeCapture: a 2d context, none, or a call that throws.
CanvasOutcomes == {"ok", "noContext", "throws"}

\* ------------------------------------------------------------------ AutoCaptureManager

\* Mutant of calculateAlignmentQuality: the two penalty weights are exchanged.
calculateAlignmentQualitySwapped(alignmentStatus) ==
    IF ~alignmentStatus.isAligned THEN 0
    ELSE LET trackerPenalty == (Len(alignmentStatus.missingTrackers) * 300) \div 4
             stalePenalty   == (Len(alignmentStatus.staleTrackers) * 500) \div 4
         IN  Max(0, 1000 - trackerPenalty - stalePenalty)

calculateAlignmentQuality(alignmentStatus) ==
    IF ~alignmentStatus.isAligned THEN 0
    ELSE LET trackerPenalty == (Len(alignmentStatus.missingTrackers) * 500) \div 4
             stalePenalty   == (Len(alignmentStatus.staleTrackers) * 300) \div 4
         IN  Max(0, 1000 - trackerPenalty - stalePenalty)

\* The centroid as exact fractions sum/length.
estimateCurrentPosition(trackers) ==
    IF Len(trackers) = 0 THEN Null
    ELSE [x |-> << SumSeq([i \in 1..Len(trackers) |-> trackers[i].center.x]), Len(trackers) >>,
          y |-> << SumSeq([i \in 1..Len(trackers) |-> trackers[i].center.y]), Len(trackers) >>]

\* calculateDistance(pos1, pos2) < threshold, decided on the squares of the
\* fractions brought to the common denominator.
DistanceBelow(pos1, pos2, threshold) ==
    LET d  == pos1.x[2] * pos2.x[2]
        dx == pos1.x[1] * pos2.x[2] - pos2.x[1] * pos1.x[2]
        dy == pos1.y[1] * pos2.y[2] - pos2.y[1] * pos1.y[2]
    IN  dx * dx + dy * dy < (threshold * d) * (threshold * d)

Uncaptured(positions) == {i \in 1..Len(positions) : ~positions[i].captured}

\* uncaptured.sort((a, b) => a.priority - b.priority)[0]: the stable sort keeps
\* the first in list order among those of least priority.
getNextInstruction(positions) ==
    LET unc == Uncaptured(positions)
    IN  IF unc = {} THEN "all_captured"
        ELSE LET least == {i \in unc : \A j \in unc : positions[i].priority <= positions[j].priority}
                 next  == CHOOSE i \in least : \A j \in least : i <= j
             IN  positions[next].id

calculateSessionConfidence(session) ==
    LET completed == {i \in 1..Len(session.positions) : session.positions[i].captured}
        n == Cardinality(completed)
        quality(i) == IF session.positions[i].alignmentStatus = None THEN 0
                      ELSE calculateAlignmentQuality(Get(session.positions[i].alignmentStatus))
        total == SumSeq([i \in 1..Len(session.positions) |->
                            IF i \in completed THEN quality(i) ELSE 0])
    IN  IF n = 0 THEN 0
        ELSE ((total \div n) * n) \div session.totalCapturesNeeded

NewSession ==
    LET positions == [i \in 1..Len(OPTIMAL_POSITIONS) |->
                        [id |-> OPTIMAL_POSITIONS[i].id,
                         priority |-> OPTIMAL_POSITIONS[i].priority,
                         captured |-> FALSE,
                         timestamp |-> None,
                         imageData |-> None,
                         trackers |-> None,
                         alignmentStatus |-> None]]
    IN  [startTime |-> now,
         positions |-> positions,
         totalCapturesNeeded |-> Len(positions),
         capturesCompleted |-> 0,
         isComplete |-> FALSE,
         userInstructions |-> getNextInstruction(positions),
         confidenceScore |-> 0,
         lastCaptureTime |-> None]

StartSession ==
    /\ currentSession' = NewSession
    /\ lastCapturePosition' = Null
    /\ succ' = 0
    /\ ret' = [op |-> "startSession"]
    /\ UNCHANGED <<now, captureCallbacks, downstreamVars>>

\* Mutant of FindTarget: the slot search ignores the captured flag.
FindTargetAny(positions) == IF Len(positions) = 0 THEN 0 ELSE 1

\* Mutant of FindTarget: the search runs from the end of the list.
FindTargetLast(positions) ==
    LET unc == Uncaptured(positions)
    IN  IF unc = {} THEN 0 ELSE CHOOSE i \in unc : \A j \in unc : i >= j

\* positions.find(pos => !pos.captured): the first uncaptured slot, 0 if none.
FindTarget(positions) ==
    LET unc == Uncaptured(positions)
    IN  IF unc = {} THEN 0 ELSE CHOOSE i \in unc : \A j \in unc : i <= j

\* processAlignment under the configuration this.config.
GateResultUnder(thisConfig, alignmentStatus, trackers) ==
    IF currentSession = Null \/ currentSession.isComplete
    THEN [shouldCapture |-> FALSE, reason |-> "No active session"]
    ELSE IF calculateAlignmentQuality(alignmentStatus) < thisConfig.minAlignmentQuality
    THEN [shouldCapture |-> FALSE, reason |-> "Alignment quality"]
    ELSE IF /\ currentSession.lastCaptureTime # None
            /\ Get(currentSession.lastCaptureTime) # 0
            /\ now - Get(currentSession.lastCaptureTime) < thisConfig.timeBetweenCaptures
    THEN [shouldCapture |-> FALSE, reason |-> "Wait"]
    ELSE IF /\ lastCapturePosition # Null
            /\ estimateCurrentPosition(trackers) # Null
            /\ DistanceBelow(estimateCurrentPosition(trackers), lastCapturePosition,
                             thisConfig.movementThreshold)
    THEN [shouldCapture |-> FALSE, reason |-> "Move"]
    ELSE [shouldCapture |-> TRUE, reason |-> "Perfect conditions for capture!"]

GateResult(alignmentStatus, trackers) ==
    GateResultUnder(config, alignmentStatus, trackers)

ProcessAlignment ==
    \E input \in GateInputs :
        /\ ret' = [op |-> "processAlignment",
                   alignmentStatus |-> input[1],
                   trackers |-> input[2],
                   result |-> GateResult(input[1], input[2])]
        /\ UNCHANGED <<now, currentSession, lastCapturePosition, captureCallbacks, succ,
                       downstreamVars>>

\* Mutant of Captured: the capture is stored but not counted.
CapturedUncounted(session, target, frame) ==
    [session EXCEPT !.positions[target].captured = TRUE,
                    !.positions[target].timestamp = Some(now),
                    !.positions[target].imageData = Some(frame.img),
                    !.positions[target].trackers = Some(frame.trackers),
                    !.positions[target].alignmentStatus = Some(frame.status),
                    !.lastCaptureTime = Some(now)]

\* Mutant of Captured: completion is tested with > instead of >=.
CapturedLate(session, target, frame) ==
    LET positions == [session.positions EXCEPT
                         ![target].captured = TRUE,
                         ![target].timestamp = Some(now),
                         ![target].imageData = Some(frame.img),
                         ![target].trackers = Some(frame.trackers),
                         ![target].alignmentStatus = Some(frame.status)]
        s1 == [session EXCEPT !.positions = positions,
                              !.capturesCompleted = session.capturesCompleted + 1,
                              !.lastCaptureTime = Some(now)]
    IN  IF s1.capturesCompleted > s1.totalCapturesNeeded
        THEN [s1 EXCEPT !.isComplete = TRUE]
        ELSE s1

\* The session after a capture of `frame` into slot `target`.
Captured(session, target, frame) ==
    LET positions == [session.positions EXCEPT
                         ![target].captured = TRUE,
                         ![target].timestamp = Some(now),
                         ![target].imageData = Some(frame.img),
                         ![target].trackers = Some(frame.trackers),
                         ![target].alignmentStatus = Some(frame.status)]
        s1 == [session EXCEPT !.positions = positions,
                              !.capturesCompleted = session.capturesCompleted + 1,
                              !.lastCaptureTime = Some(now)]
        s2 == [s1 EXCEPT !.confidenceScore = calculateSessionConfidence(s1),
                         !.userInstructions = getNextInstruction(positions)]
    IN  IF s2.capturesCompleted >= s2.totalCapturesNeeded
        THEN [s2 EXCEPT !.isComplete = TRUE, !.userInstructions = "complete"]
        ELSE s2

ExecuteCapture ==
    \E frame \in CaptureFrames, canvas \in CanvasOutcomes :
        LET target == IF currentSession = Null THEN 0
                      ELSE FindTarget(currentSession.positions)
            done == currentSession # Null /\ canvas = "ok" /\ target # 0
        IN  /\ IF done
               THEN /\ currentSession' = Captured(currentSession, target, frame)
                    /\ lastCapturePosition' =
                          IF estimateCurrentPosition(frame.trackers) # Null
                          THEN estimateCurrentPosition(frame.trackers)
                          ELSE lastCapturePosition
                    /\ succ' = succ + 1
               ELSE UNCHANGED <<currentSession, lastCapturePosition, succ>>
            /\ ret' = [op |-> "executeCapture",
                       frame |-> frame,
                       result |-> done,
                       target |-> IF done THEN target ELSE 0,
                       notified |-> IF done THEN captureCallbacks ELSE 0]
            /\ UNCHANGED <<now, captureCallbacks, downstreamVars>>

OnCapture ==
    /\ captureCallbacks < MaxSubs
    /\ captureCallbacks' = captureCallbacks + 1
    /\ ret' = [op |-> "onCapture"]
    /\ UNCHANGED <<now, currentSession, lastCapturePosition, succ, downstreamVars>>

Reset ==
    /\ currentSession' = Null
    /\ lastCapturePosition' = Null
    /\ succ' = 0
    /\ ret' = [op |-> "reset"]
    /\ UNCHANGED <<now, captureCallbacks, downstreamVars>>

Tick ==
    /\ now < StartTime + MaxTicks * 2000
    /\ now' = now + 2000
    /\ ret' = [op |-> "tick"]
    /\ UNCHANGED <<currentSession, lastCapturePosition, captureCallbacks, succ, downstreamVars>>

\* ------------------------------------------------------------------ ImageProcessor

\* session.positions.filter(pos => pos.captured && pos.imageData && pos.trackers
\* && pos.alignmentStatus): a data URL is a non-empty string and an array is
\* truthy, so a field counts when it is set.
ValidCaptures(session) ==
    {i \in 1..Len(session.positions) :
        /\ session.positions[i].captured
        /\ session.positions[i].imageData # None
        /\ session.positions[i].trackers # None
        /\ session.positions[i].alignmentStatus # None}

\* Mutant of ScanOutcome: the isComplete precondition is not tested.
ScanOutcomeUnchecked(session, loaded) ==
    LET validCaptures == ValidCaptures(session)
        processed == validCaptures \cap loaded
    IN  IF validCaptures = {}
        THEN [threw |-> "No valid captures found in session", detectCalls |-> 0, result |-> None]
        ELSE IF processed = {}
        THEN [threw |-> "Failed to process any images", detectCalls |-> 0, result |-> None]
        ELSE [threw |-> "", detectCalls |-> Cardinality(processed),
              result |-> Some([sourceImages |-> Cardinality(processed)])]

\* processScanSession(session), the images of the slots in `loaded` being the
\* ones whose processIndividualImage does not reject: the error thrown ("" for
\* none), the number of detectCones calls made, and the ProcessingResult.
ScanOutcome(session, loaded) ==
    LET validCaptures == ValidCaptures(session)
        processed == validCaptures \cap loaded
    IN  IF ~session.isComplete
        THEN [threw |-> "Scan session is not complete", detectCalls |-> 0, result |-> None]
        ELSE IF validCaptures = {}
        THEN [threw |-> "No valid captures found in session", detectCalls |-> 0, result |-> None]
        ELSE IF processed = {}
        THEN [threw |-> "Failed to process any images", detectCalls |-> 0, result |-> None]
        ELSE [threw |-> "", detectCalls |-> Cardinality(processed),
              result |-> Some([sourceImages |-> Cardinality(processed)])]

\* The images that load: all, none, or all but the first.
LoadOutcomes(session) ==
    { 1..Len(session.positions), {}, 2..Len(session.positions) }

ProcessScanSession ==
    /\ currentSession # Null
    /\ \E loaded \in LoadOutcomes(currentSession) :
          ret' = [op |-> "processScanSession",
                  outcome |-> ScanOutcome(currentSession, loaded)]
    /\ UNCHANGED <<now, currentSession, lastCapturePosition, captureCallbacks, succ,
                   downstreamVars>>

\* No session has been handed to a completion handler.
InitHandoff ==
    /\ managerConfig = DEFAULT_AUTO_CAPTURE_CONFIG
    /\ handed = Null
    /\ completeCalls = 0
    /\ scans = <<>>

InitCapture ==
    /\ now = StartTime
    /\ currentSession = Null
    /\ lastCapturePosition = Null
    /\ captureCallbacks = 0
    /\ ret = [op |-> "new"]
    /\ succ = 0
    /\ InitHandoff

InitConsensus ==
    /\ imageResults = <<>>
    /\ processing = None

\* new HomographyTransform(): no transform yet.
InitTransform ==
    /\ detectedTrackers = <<>>
    /\ transform = Null

\* The overlay at mount: no markers, not aligned, useState(null), not scanning.
InitOverlayState ==
    /\ isAligned = FALSE
    /\ coordinateTransform = Null
    /\ isScanning = FALSE
    /\ freshSeen = FALSE

\* QRTrackerOverlay at mount: no marker tracked, the initial alignmentStatus.
InitialAlignmentStatus ==
    [isAligned |-> FALSE,
     translation |-> [x |-> 0, y |-> 0],
     rotation |-> [atan2 |-> <<0, 1>>, minus |-> 0],
     scale |-> [sqrt |-> 1, over |-> 1],
     missingTrackers |-> <<"topLeft", "topRight", "bottomLeft", "bottomRight">>,
     staleTrackers |-> <<>>]

InitTracker ==
    /\ registry = <<>>
    /\ alignment = InitialAlignmentStatus

\* A new ConeDetector tracks nothing.
InitDetector ==
    /\ trackedCones = <<>>

InitTracking ==
    /\ InitTracker
    /\ InitDetector

Init ==
    /\ InitCapture
    /\ InitConsensus
    /\ InitTransform
    /\ InitOverlayState
    /\ InitTracking

Next ==
    \/ StartSession
    \/ ProcessAlignment
    \/ ExecuteCapture
    \/ OnCapture
    \/ Reset
    \/ Tick
    \/ ProcessScanSession

Spec == Init /\ [][Next]_vars

\* ------------------------------------------------------------------ session hand-off

\* startSession assigns a new object to currentSession, so the object handed
\* to the completion handler is no longer the manager's.
SharedAfterStartReusing(shared) == shared

SharedAfterStart(shared) == FALSE

\* The handed object after a manager operation that leaves the manager's
\* session as `session`: it has changed with it if it is the same object.
HandedAfter(h, session, shared) ==
    IF h = Null THEN Null
    ELSE [h EXCEPT !.shared = shared,
                   !.object = IF shared THEN session ELSE h.object]

IsShared(h) == h # Null /\ h.shared

RECURSIVE Ascending(_)
Ascending(S) ==
    IF S = {} THEN <<>>
    ELSE LET m == CHOOSE i \in S : \A j \in S : i <= j
         IN  <<m>> \o Ascending(S \ {m})

\* processScanSession up to its first await: isComplete was tested, the valid
\* captures are filtered, and the image of the first one is loading.
StartedScan(session) ==
    [captures |-> Ascending(ValidCaptures(session)), next |-> 1, done |-> 0]

\* The running calls are kept in the order of their progress: they have no
\* identity of their own.
RECURSIVE InsertScan(_, _)
InsertScan(running, scan) ==
    IF running = <<>> THEN <<scan>>
    ELSE IF <<Head(running).next, Head(running).done>> = <<scan.next, scan.done>>
            \/ Head(running).next > scan.next
            \/ (Head(running).next = scan.next /\ Head(running).done > scan.done)
         THEN <<scan>> \o running
         ELSE <<Head(running)>> \o InsertScan(Tail(running), scan)

\* The frames captured while sessions are handed over.
SessionFrames == {frame \in CaptureFrames : frame.trackers # <<>>}

SessionGateInputs == { <<ST_NotAligned, TL_Edge>>, <<ST_Aligned, TL_A>> }

\* The arguments of updateConfig.
ConfigUpdates ==
    { [timeBetweenCaptures |-> 0],
      [timeBetweenCaptures |-> 2000, movementThreshold |-> 50] }

\* AutoCaptureOverlay is mounted: its effect has subscribed handleCapture once.
InitSession ==
    /\ now = StartTime
    /\ currentSession = Null
    /\ lastCapturePosition = Null
    /\ captureCallbacks = 1
    /\ ret = [op |-> "new"]
    /\ succ = 0
    /\ InitHandoff
    /\ InitConsensus
    /\ InitTransform
    /\ InitOverlayState
    /\ InitTracking

ManagerStartSession ==
    /\ currentSession' = NewSession
    /\ lastCapturePosition' = Null
    /\ succ' = 0
    /\ completeCalls' = 0
    /\ handed' = HandedAfter(handed, currentSession',
                             IsShared(handed) /\ SharedAfterStart(IsShared(handed)))
    /\ ret' = [op |-> "startSession"]
    /\ UNCHANGED <<now, captureCallbacks, managerConfig, scans,
                   consensusVars, homographyVars, overlayVars, trackingVars>>

ManagerProcessAlignment ==
    \E input \in SessionGateInputs :
        /\ ret' = [op |-> "processAlignment",
                   alignmentStatus |-> input[1],
                   trackers |-> input[2],
                   result |-> GateResultUnder(managerConfig, input[1], input[2])]
        /\ UNCHANGED <<now, sessionVars, handoffVars,
                       consensusVars, homographyVars, overlayVars, trackingVars>>

\* executeCapture, the handleCapture callbacks it calls, and what each
\* onScanComplete (handleScanComplete) does before its first await.  The
\* model follows the processScanSession calls on the session handed last.
ManagerExecuteCapture ==
    \E frame \in SessionFrames, canvas \in CanvasOutcomes :
        LET target == IF currentSession = Null THEN 0
                      ELSE FindTarget(currentSession.positions)
            done == currentSession # Null /\ canvas = "ok" /\ target # 0
            session == IF done THEN Captured(currentSession, target, frame)
                       ELSE currentSession
            calls == IF done /\ session.isComplete THEN captureCallbacks ELSE 0
        IN  /\ currentSession' = session
            /\ lastCapturePosition' =
                  IF done /\ estimateCurrentPosition(frame.trackers) # Null
                  THEN estimateCurrentPosition(frame.trackers)
                  ELSE lastCapturePosition
            /\ succ' = IF done THEN succ + 1 ELSE succ
            /\ completeCalls' = completeCalls + calls
            /\ handed' = IF calls > 0
                         THEN [atNotify |-> session, object |-> session, shared |-> TRUE]
                         ELSE HandedAfter(handed, session, IsShared(handed))
            /\ scans' = IF calls = 0 THEN scans
                        ELSE IF ValidCaptures(session) = {} THEN <<>>
                        ELSE [k \in 1..calls |-> StartedScan(session)]
            /\ ret' = [op |-> "executeCapture",
                       frame |-> frame,
                       result |-> done,
                       target |-> IF done THEN target ELSE 0,
                       notified |-> IF done THEN captureCallbacks ELSE 0,
                       completions |-> calls]
            /\ UNCHANGED <<now, captureCallbacks, managerConfig,
                           consensusVars, homographyVars, overlayVars, trackingVars>>

ManagerReset ==
    /\ currentSession' = Null
    /\ lastCapturePosition' = Null
    /\ succ' = 0
    /\ completeCalls' = 0
    /\ handed' = HandedAfter(handed, Null, FALSE)
    /\ ret' = [op |-> "reset"]
    /\ UNCHANGED <<now, captureCallbacks, managerConfig, scans,
                   consensusVars, homographyVars, overlayVars, trackingVars>>

ManagerUpdateConfig ==
    \E newConfig \in ConfigUpdates :
        /\ managerConfig' = [k \in DOMAIN managerConfig |->
                                IF k \in DOMAIN newConfig THEN newConfig[k]
                                ELSE managerConfig[k]]
        /\ ret' = [op |-> "updateConfig"]
        /\ UNCHANGED <<now, sessionVars, handed, completeCalls, scans,
                       consensusVars, homographyVars, overlayVars, trackingVars>>

\* The subscription effect runs again (a new onScanComplete prop): one more
\* handleCapture is pushed, none is removed.
Resubscribe ==
    /\ captureCallbacks < 1 + MaxResubscribes
    /\ captureCallbacks' = captureCallbacks + 1
    /\ ret' = [op |-> "onCapture"]
    /\ UNCHANGED <<now, currentSession, lastCapturePosition, succ, handoffVars,
                   consensusVars, homographyVars, overlayVars, trackingVars>>

\* A running processScanSession resumes: the image of its current capture has
\* loaded or failed, the capture is read from the session object as it is
\* now, and the loop goes to the next capture or the call ends.
ImageProcessed ==
    \E i \in 1..Len(scans), loaded \in BOOLEAN :
        LET scan == scans[i]
            slot == scan.captures[scan.next]
            capture == handed.object.positions[slot]
            usable == /\ loaded
                      /\ capture.imageData # None
                      /\ capture.trackers # None
                      /\ capture.alignmentStatus # None
            done == scan.done + (IF usable THEN 1 ELSE 0)
            last == scan.next = Len(scan.captures)
            others == SubSeq(scans, 1, i - 1) \o SubSeq(scans, i + 1, Len(scans))
        IN  /\ scans' = IF last THEN others
                        ELSE InsertScan(others, [scan EXCEPT !.next = @ + 1, !.done = done])
            /\ ret' = [op |-> "processIndividualImage",
                       slot |-> slot,
                       capture |-> capture,
                       ended |-> last,
                       threw |-> IF last /\ done = 0 THEN "Failed to process any images"
                                 ELSE "",
                       sourceImages |-> done]
            /\ UNCHANGED <<now, sessionVars, managerConfig, handed, completeCalls,
                           consensusVars, homographyVars, overlayVars, trackingVars>>

NextSession ==
    \/ ManagerStartSession
    \/ ManagerProcessAlignment
    \/ ManagerExecuteCapture
    \/ ManagerReset
    \/ ManagerUpdateConfig
    \/ Resubscribe
    \/ ImageProcessed

SpecSession == InitSession /\ [][NextSession]_vars

\* ------------------------------------------------------------------ consensus analysis

DEFAULT_PROCESSING_CONFIG ==
    [clusteringRadius |-> 15,
     minConsensus     |-> 2,
     outlierThreshold |-> 25]

processingConfig == DEFAULT_PROCESSING_CONFIG

Point(x, y) == [x |-> x, y |-> y]

\* The square of the distance between two points.
Dist2(p, q) == (p.x - q.x) * (p.x - q.x) + (p.y - q.y) * (p.y - q.y)

\* A DetectedCone as the consensus analysis reads it.
Cone(id, surfacePosition, confidence) ==
    [id |-> id, surfacePosition |-> surfacePosition, confidence |-> confidence]

\* calculateDistance(p1, p2) <= radius, decided on the squares.
WithinRadius(p1, p2, radius) ==
    (p1.x - p2.x) * (p1.x - p2.x) + (p1.y - p2.y) * (p1.y - p2.y) <= radius * radius

\* Mutant of calculateWeightedPosition: every detection weighs the same.
calculateUnweightedPosition(detections) ==
    LET used == SelectSeq(detections, LAMBDA d : d.surfacePosition # Null)
        n == Len(used)
    IN  [x |-> Frac(SumSeq([i \in 1..n |-> used[i].surfacePosition.x]), n),
         y |-> Frac(SumSeq([i \in 1..n |-> used[i].surfacePosition.y]), n)]

calculateWeightedPosition(detections) ==
    LET used == SelectSeq(detections, LAMBDA d : d.surfacePosition # Null)
        n == Len(used)
        totalWeight == SumSeq([i \in 1..n |-> used[i].confidence])
        weightedX == SumSeq([i \in 1..n |-> used[i].surfacePosition.x * used[i].confidence])
        weightedY == SumSeq([i \in 1..n |-> used[i].surfacePosition.y * used[i].confidence])
    IN  [x |-> Frac(weightedX, totalWeight), y |-> Frac(weightedY, totalWeight)]

\* Mutant of calculatePositionVariance: the distances are summed, not averaged.
calculatePositionVarianceSummed(detections) ==
    LET positions == SelectSeq(detections, LAMBDA d : d.surfacePosition # Null)
        n == Len(positions)
        sumX == SumSeq([i \in 1..n |-> positions[i].surfacePosition.x])
        sumY == SumSeq([i \in 1..n |-> positions[i].surfacePosition.y])
        dist(i) == LET dx == n * positions[i].surfacePosition.x - sumX
                       dy == n * positions[i].surfacePosition.y - sumY
                   IN  ISqrt((dx * dx + dy * dy) * 10000) \div n
    IN  IF Len(detections) < 2 \/ n < 2 THEN 0
        ELSE SumSeq([i \in 1..n |-> dist(i)])

\* The mean distance of the positions from their (unweighted) centroid, in
\* hundredths of a millimetre.
calculatePositionVariance(detections) ==
    LET positions == SelectSeq(detections, LAMBDA d : d.surfacePosition # Null)
        n == Len(positions)
        sumX == SumSeq([i \in 1..n |-> positions[i].surfacePosition.x])
        sumY == SumSeq([i \in 1..n |-> positions[i].surfacePosition.y])
        dist(i) == LET dx == n * positions[i].surfacePosition.x - sumX
                       dy == n * positions[i].surfacePosition.y - sumY
                   IN  ISqrt((dx * dx + dy * dy) * 10000) \div n
    IN  IF Len(detections) < 2 \/ n < 2 THEN 0
        ELSE SumSeq([i \in 1..n |-> dist(i)]) \div n

\* Mutant of calculateClusterConfidence: the result is clamped to [0, 1].
calculateClusterConfidenceClamped(detections) ==
    LET n == Len(detections)
        avgConfidence == SumSeq([i \in 1..n |-> detections[i].confidence]) \div n
        consensusBonus == Min((n * 1000) \div 4, 300)
        variancePenalty == Min(calculatePositionVariance(detections) \div 5, 200)
    IN  IF n = 0 THEN 0
        ELSE Max(0, Min(1000, avgConfidence + consensusBonus - variancePenalty))

\* In thousandths: variance / 50 is (hundredths of mm) / 5 thousandths.
calculateClusterConfidence(detections) ==
    LET n == Len(detections)
        avgConfidence == SumSeq([i \in 1..n |-> detections[i].confidence]) \div n
        consensusBonus == Min((n * 1000) \div 4, 300)
        variancePenalty == Min(calculatePositionVariance(detections) \div 5, 200)
    IN  IF n = 0 THEN 0
        ELSE Max(0, avgConfidence + consensusBonus - variancePenalty)

calculateSpatialAccuracy(clusteredCones) ==
    LET n == Len(clusteredCones)
        avgVariance == SumSeq([i \in 1..n |-> clusteredCones[i].positionVariance]) \div n
    IN  IF n = 0 THEN 0 ELSE Max(0, 1000 - avgVariance \div 3)

\* imageResults.flatMap(result => result.cones.filter(cone => cone.surfacePosition))
RECURSIVE CollectDetections(_)
CollectDetections(results) ==
    IF results = <<>> THEN <<>>
    ELSE SelectSeq(Head(results).cones, LAMBDA c : c.surfacePosition # Null)
            \o CollectDetections(Tail(results))

\* Mutant of ClusterAround: detections already used by a cluster are taken again.
ClusterAroundReusing(allDetections, detection, usedDetections) ==
    SelectSeq(allDetections, LAMBDA other :
        /\ other.surfacePosition # Null
        /\ WithinRadius(detection.surfacePosition, other.surfacePosition,
                        processingConfig.clusteringRadius))

\* The unused detections within the clustering radius of `detection`.
ClusterAround(allDetections, detection, usedDetections) ==
    SelectSeq(allDetections, LAMBDA other :
        /\ other.id \notin usedDetections
        /\ other.surfacePosition # Null
        /\ WithinRadius(detection.surfacePosition, other.surfacePosition,
                        processingConfig.clusteringRadius))

\* The loop over allDetections from index i on, with the clusters made and the
\* ids used so far.
RECURSIVE ClusterLoop(_, _, _, _)
ClusterLoop(allDetections, i, clusteredCones, usedDetections) ==
    IF i > Len(allDetections)
    THEN [clusteredCones |-> clusteredCones, usedDetections |-> usedDetections]
    ELSE LET detection == allDetections[i]
         IN  IF detection.id \in usedDetections \/ detection.surfacePosition = Null
             THEN ClusterLoop(allDetections, i + 1, clusteredCones, usedDetections)
             ELSE LET cluster == ClusterAround(allDetections, detection, usedDetections)
                  IN  IF Len(cluster) >= processingConfig.minConsensus
                      THEN ClusterLoop(allDetections, i + 1,
                              Append(clusteredCones,
                                  [id |-> Len(clusteredCones) + 1,
                                   position |-> calculateWeightedPosition(cluster),
                                   confidence |-> calculateClusterConfidence(cluster),
                                   supportingDetections |-> cluster,
                                   positionVariance |-> calculatePositionVariance(cluster)]),
                              usedDetections \cup {cluster[k].id : k \in 1..Len(cluster)})
                      ELSE ClusterLoop(allDetections, i + 1, clusteredCones, usedDetections)

\* Mutant of performConsensusAnalysis: the outliers are not filtered by use.
performConsensusAnalysisUnfiltered(results) ==
    LET allDetections == CollectDetections(results)
        done == ClusterLoop(allDetections, 1, <<>>, {})
    IN  [totalDetections |-> Len(allDetections),
         clusteredCones |-> done.clusteredCones,
         outlierDetections |-> allDetections,
         spatialAccuracy |-> calculateSpatialAccuracy(done.clusteredCones)]

performConsensusAnalysis(results) ==
    LET allDetections == CollectDetections(results)
        done == ClusterLoop(allDetections, 1, <<>>, {})
    IN  [totalDetections |-> Len(allDetections),
         clusteredCones |-> done.clusteredCones,
         outlierDetections |->
             SelectSeq(allDetections, LAMBDA det : det.id \notin done.usedDetections),
         spatialAccuracy |-> calculateSpatialAccuracy(done.clusteredCones)]

\* consensusAnalysis.clusteredCones.map(cluster => ({...}))
FinalCones(consensusAnalysis) ==
    [i \in 1..Len(consensusAnalysis.clusteredCones) |->
        [id |-> consensusAnalysis.clusteredCones[i].id,
         surfacePosition |-> consensusAnalysis.clusteredCones[i].position,
         confidence |-> consensusAnalysis.clusteredCones[i].confidence]]

\* The observations a captured image can yield: two near (100 mm, 150 mm) with
\* confidences 0.8 and 0.9, two exactly 15 mm apart, one far from all, and one
\* detected without a valid transform.
ObservationKinds ==
    { [surfacePosition |-> Point(100, 150), confidence |-> 800],
      [surfacePosition |-> Point(101, 150), confidence |-> 900],
      [surfacePosition |-> Point(160, 150), confidence |-> 700],
      [surfacePosition |-> Point(160, 165), confidence |-> 1000],
      [surfacePosition |-> Point(100, 250), confidence |-> 900],
      [surfacePosition |-> Null,            confidence |-> 900] }

RECURSIVE SeqsUpTo(_, _)
SeqsUpTo(S, n) ==
    IF n = 0 THEN {<<>>}
    ELSE LET shorter == SeqsUpTo(S, n - 1)
         IN  shorter \cup {Append(q, e) : q \in {r \in shorter : Len(r) = n - 1}, e \in S}

\* The cones of the per-image results: each with its own id, the first half
\* found in the first image and the rest in the second.
ImageResultsOf(kinds) ==
    LET cones == [i \in 1..Len(kinds) |->
                     Cone(i, kinds[i].surfacePosition, kinds[i].confidence)]
        first == (Len(cones) + 1) \div 2
    IN  << [imageId |-> "center_top", cones |-> SubSeq(cones, 1, first)],
           [imageId |-> "angle_ne",   cones |-> SubSeq(cones, first + 1, Len(cones))] >>

InitProcessing ==
    /\ InitCapture
    /\ InitTracking
    /\ InitTransform
    /\ InitOverlayState
    /\ \E kinds \in SeqsUpTo(ObservationKinds, MaxDet) :
          imageResults = ImageResultsOf(kinds)
    /\ processing = None

\* processScanSession from the consensus analysis on.
Analyze ==
    /\ processing = None
    /\ LET consensusAnalysis == performConsensusAnalysis(imageResults)
       IN  processing' = Some([consensusAnalysis |-> consensusAnalysis,
                               cones |-> FinalCones(consensusAnalysis)])
    /\ UNCHANGED <<handoffVars, captureVars, imageResults, homographyVars, overlayVars, trackingVars>>

NextProcessing == Analyze

SpecConsensus == InitProcessing /\ [][NextProcessing]_vars

\* ------------------------------------------------------------------ HomographyTransform

A4_PHYSICAL_MM ==
    [PORTRAIT  |-> [width |-> 210, height |-> 297],
     LANDSCAPE |-> [width |-> 297, height |-> 210]]

\* new Map(trackers.map(t => [t.id, t])).get(id): the last entry of that id.
TrackerMapGet(trackers, id) ==
    LET found == {i \in 1..Len(trackers) : trackers[i].id = id}
    IN  IF found = {} THEN Null
        ELSE trackers[CHOOSE i \in found : \A j \in found : j <= i]

\* The rows of the system A h = 0, two for each correspondence.
RECURSIVE BuildA(_, _, _)
BuildA(srcPoints, dstPoints, i) ==
    IF i > 4 THEN <<>>
    ELSE LET x == srcPoints[i][1]
             y == srcPoints[i][2]
             u == dstPoints[i][1]
             v == dstPoints[i][2]
         IN  << <<-x, -y, -1, 0, 0, 0, u * x, u * y, u>>,
                <<0, 0, 0, -x, -y, -1, v * x, v * y, v>> >>
             \o BuildA(srcPoints, dstPoints, i + 1)

\* solveDLT returns the same nine numbers whatever the system is.
solveDLT(A) == <<1, 0, 0, 0, 1, 0, 0, 0, 1>>

computeHomographyMatrix(srcPoints, dstPoints) ==
    IF Len(srcPoints) # 4 \/ Len(dstPoints) # 4
    THEN [matrix |-> <<>>, isValid |-> FALSE]
    ELSE LET h == solveDLT(BuildA(srcPoints, dstPoints, 1))
         IN  [matrix |-> << <<h[1], h[2], h[3]>>,
                            <<h[4], h[5], h[6]>>,
                            <<h[7], h[8], h[9]>> >>,
              isValid |-> TRUE]

InvalidTransform ==
    [isValid |-> FALSE, homographyMatrix |-> None,
     surfaceDimensions |-> A4_PHYSICAL_MM.PORTRAIT]

\* The destination points in millimetres, 20 mm inside the sheet.
DstPoints ==
    LET margin == 20
    IN  << <<margin, margin>>,
           <<A4_PHYSICAL_MM.PORTRAIT.width - margin, margin>>,
           <<A4_PHYSICAL_MM.PORTRAIT.width - margin, A4_PHYSICAL_MM.PORTRAIT.height - margin>>,
           <<margin, A4_PHYSICAL_MM.PORTRAIT.height - margin>> >>

\* calculateHomography reaches the solve: at least four entries, every id found.
HomographySolved(trackers) ==
    /\ Len(trackers) >= 4
    /\ \A id \in TrackerID : TrackerMapGet(trackers, id) # Null

\* The CoordinateTransform that calculateHomography returns.
calculateHomography(trackers) ==
    IF ~HomographySolved(trackers) THEN InvalidTransform
    ELSE LET qr01 == TrackerMapGet(trackers, "QR_01")
             qr02 == TrackerMapGet(trackers, "QR_02")
             qr03 == TrackerMapGet(trackers, "QR_03")
             qr04 == TrackerMapGet(trackers, "QR_04")
             srcPoints == << <<qr01.center.x, qr01.center.y>>,
                             <<qr02.center.x, qr02.center.y>>,
                             <<qr03.center.x, qr03.center.y>>,
                             <<qr04.center.x, qr04.center.y>> >>
             homographyMatrix == computeHomographyMatrix(srcPoints, DstPoints)
         IN  [isValid |-> homographyMatrix.isValid,
              homographyMatrix |-> Some(homographyMatrix.matrix),
              surfaceDimensions |-> A4_PHYSICAL_MM.PORTRAIT]

\* this.transform after calculateHomography: written only when the solve is reached.
TransformAfter(prev, trackers) ==
    IF HomographySolved(trackers) THEN calculateHomography(trackers) ELSE prev

\* transformPoint on the stored transform; |w| < 1e-8 on integers is w = 0.
transformPoint(stored, point) ==
    IF stored = Null THEN Null
    ELSE IF ~stored.isValid \/ stored.homographyMatrix = None THEN Null
    ELSE LET H == Get(stored.homographyMatrix)
             u == H[1][1] * point.x + H[1][2] * point.y + H[1][3]
             v == H[2][1] * point.x + H[2][2] * point.y + H[2][3]
             w == H[3][1] * point.x + H[3][2] * point.y + H[3][3]
         IN  IF w = 0 THEN Null
             ELSE [x |-> Frac(u, w), y |-> Frac(v, w)]

\* The corner of marker id in a rectangle of markers placed at (ox, oy).
CornerAt(layout, id) ==
    CASE id = "QR_01" -> Point(layout.ox, layout.oy)
      [] id = "QR_02" -> Point(layout.ox + layout.w, layout.oy)
      [] id = "QR_03" -> Point(layout.ox + layout.w, layout.oy + layout.h)
      [] id = "QR_04" -> Point(layout.ox, layout.oy + layout.h)

\* Where the camera sees the markers: on a square of 200 px, exactly on the
\* destination points, or seen edge-on, all on one line with the top and
\* bottom markers of each side coinciding.
Layouts ==
    { [ox |-> 100, oy |-> 100, w |-> 200, h |-> 200],
      [ox |-> 20,  oy |-> 20,  w |-> 170, h |-> 257],
      [ox |-> 100, oy |-> 100, w |-> 200, h |-> 0] }

\* The marker lists given to calculateHomography: any ids, repeated or absent.
TrackerLists ==
    { [i \in 1..Len(ids) |-> [id |-> ids[i], center |-> CornerAt(layout, ids[i])]] :
         ids \in SeqsUpTo(TrackerID, MaxTrackers), layout \in Layouts }

\* The points given to transformPoint: the marker centres and the origin.
ProbePoints(trackers) ==
    {trackers[i].center : i \in 1..Len(trackers)} \cup {Point(0, 0)}

InitHomography ==
    /\ InitCapture
    /\ InitTracking
    /\ InitConsensus
    /\ InitOverlayState
    /\ detectedTrackers \in TrackerLists
    /\ transform = Null

CalculateHomography ==
    /\ ret' = [op |-> "calculateHomography",
               result |-> calculateHomography(detectedTrackers)]
    /\ transform' = TransformAfter(transform, detectedTrackers)
    /\ UNCHANGED <<handoffVars, now, currentSession, lastCapturePosition, captureCallbacks, succ,
                   consensusVars, trackingVars, detectedTrackers, overlayVars>>

TransformPoint ==
    /\ \E point \in ProbePoints(detectedTrackers) :
          ret' = [op |-> "transformPoint", point |-> point,
                  result |-> transformPoint(transform, point)]
    /\ UNCHANGED <<now, currentSession, lastCapturePosition, captureCallbacks, succ,
                   downstreamVars>>

\* HomographyTransform.reset
ResetTransform ==
    /\ transform # Null
    /\ transform' = Null
    /\ ret' = [op |-> "resetTransform"]
    /\ UNCHANGED <<handoffVars, now, currentSession, lastCapturePosition, captureCallbacks, succ,
                   consensusVars, trackingVars, detectedTrackers, overlayVars>>

NextHomography ==
    \/ CalculateHomography
    \/ TransformPoint
    \/ ResetTransform

SpecHomography == InitHomography /\ [][NextHomography]_vars

\* ------------------------------------------------------------------ ConeDetector

CONE_CONFIG ==
    [detectionThreshold |-> 600, staleThreshold |-> 1000,
     maxDetectionDistance |-> 50, minRadius |-> 5, maxRadius |-> 50]

DEFAULT_DETECTION_PARAMS ==
    [minRadius |-> CONE_CONFIG.minRadius, maxRadius |-> CONE_CONFIG.maxRadius,
     confidenceThreshold |-> CONE_CONFIG.detectionThreshold]

\* A position (x, y, r) the loops of detectCircles visit, with the confidence
\* calculateCircleConfidence finds there on the frame's edges.
Circle(x, y, radius, confidence) ==
    [x |-> x, y |-> y, radius |-> radius, confidence |-> confidence]

\* distance < (r + existing.radius) * 0.7, on the squares.
Overlaps(c, existing) ==
    100 * ((c.x - existing.x) * (c.x - existing.x) + (c.y - existing.y) * (c.y - existing.y))
        < 49 * (c.radius + existing.radius) * (c.radius + existing.radius)

isOverlapping(circles, c) ==
    \E i \in 1..Len(circles) : Overlaps(c, circles[i])

\* The loops of detectCircles over the visited positions, in scan order: a
\* position is pushed when its confidence passes the threshold and it overlaps
\* no circle pushed before it.
RECURSIVE ScanCircles(_, _)
ScanCircles(samples, circles) ==
    IF samples = <<>> THEN circles
    ELSE LET c == Head(samples)
             accepted == /\ c.confidence > DEFAULT_DETECTION_PARAMS.confidenceThreshold
                         /\ ~isOverlapping(circles, c)
         IN  ScanCircles(Tail(samples), IF accepted THEN Append(circles, c) ELSE circles)

\* Array.prototype.sort by descending confidence is stable: c goes behind the
\* circles of no smaller confidence.
RECURSIVE InsertByConfidence(_, _)
InsertByConfidence(sorted, c) ==
    IF sorted = <<>> THEN <<c>>
    ELSE IF Head(sorted).confidence >= c.confidence
         THEN <<Head(sorted)>> \o InsertByConfidence(Tail(sorted), c)
         ELSE <<c>> \o sorted

RECURSIVE SortByConfidence(_)
SortByConfidence(circles) ==
    IF circles = <<>> THEN <<>>
    ELSE InsertByConfidence(SortByConfidence(SubSeq(circles, 1, Len(circles) - 1)),
                            circles[Len(circles)])

detectCircles(samples) ==
    LET sorted == SortByConfidence(ScanCircles(samples, <<>>))
    IN  SubSeq(sorted, 1, Min(10, Len(sorted)))

\* ConeUtils.transformToSurface; |w| < 1e-8 on integers is w = 0.
transformToSurface(cameraPoint, given) ==
    IF ~given.isValid \/ given.homographyMatrix = None THEN Null
    ELSE LET H == Get(given.homographyMatrix)
             u == H[1][1] * cameraPoint.x + H[1][2] * cameraPoint.y + H[1][3]
             v == H[2][1] * cameraPoint.x + H[2][2] * cameraPoint.y + H[2][3]
             w == H[3][1] * cameraPoint.x + H[3][2] * cameraPoint.y + H[3][3]
         IN  IF w = 0 THEN Null
             ELSE [x |-> Frac(u, w), y |-> Frac(v, w)]

\* ConeUtils.filterStaleCones: the cones whose age is (stale) or is not (fresh)
\* above the stale threshold, in order.
RECURSIVE ConesByAge(_, _, _)
ConesByAge(cones, currentTime, stale) ==
    IF cones = <<>> THEN <<>>
    ELSE LET rest == ConesByAge(Tail(cones), currentTime, stale)
         IN  IF (currentTime - Head(cones).lastSeen > CONE_CONFIG.staleThreshold) = stale
             THEN <<Head(cones)>> \o rest
             ELSE rest

\* Mutant of filterStaleCones: no cone is ever taken for stale.
filterStaleConesKeeping(cones, currentTime) ==
    [fresh |-> cones, stale |-> <<>>]

filterStaleCones(cones, currentTime) ==
    [fresh |-> ConesByAge(cones, currentTime, FALSE),
     stale |-> ConesByAge(cones, currentTime, TRUE)]

\* ConeUtils.matchCone: the index of the first tracked cone nearer than
\* maxDetectionDistance, 0 for null.
matchCone(newCone, existingCones) ==
    LET near == { i \in 1..Len(existingCones) :
                    Dist2(newCone.center, existingCones[i].center)
                        < CONE_CONFIG.maxDetectionDistance * CONE_CONFIG.maxDetectionDistance }
    IN  IF near = {} THEN 0 ELSE CHOOSE i \in near : \A j \in near : i <= j

\* ConeUtils.createDetectedCone; the id carries the time and, for its random
\* suffix, the ordinal of the detection.
createDetectedCone(center, radius, confidence, given, currentTime, ordinal) ==
    [id |-> <<currentTime, ordinal>>,
     center |-> center,
     surfacePosition |-> IF given # None THEN transformToSurface(center, Get(given)) ELSE Null,
     radius |-> radius,
     confidence |-> confidence,
     lastSeen |-> currentTime]

\* The loop of updateTrackedCones from detection k on.
RECURSIVE ProcessDetections(_, _, _, _, _)
ProcessDetections(cones, newDetections, k, given, currentTime) ==
    IF k > Len(newDetections) THEN cones
    ELSE LET detection == newDetections[k]
             existingCone == matchCone(detection, cones)
             updated ==
                 IF existingCone # 0
                 THEN [cones EXCEPT ![existingCone] =
                         [@ EXCEPT !.center = detection.center,
                                   !.radius = detection.radius,
                                   !.confidence = detection.confidence,
                                   !.lastSeen = currentTime,
                                   !.surfacePosition =
                                       IF given # None
                                       THEN transformToSurface(detection.center, Get(given))
                                       ELSE Null]]
                 ELSE Append(cones, createDetectedCone(detection.center, detection.radius,
                                                       detection.confidence, given,
                                                       currentTime, k))
         IN  ProcessDetections(updated, newDetections, k + 1, given, currentTime)

updateTrackedCones(tracked, newDetections, given, currentTime) ==
    ProcessDetections(filterStaleCones(tracked, currentTime).fresh,
                      newDetections, 1, given, currentTime)

\* detectCones with a 2d context: the new trackedCones, whose copy is returned.
detectCones(tracked, samples, given, currentTime) ==
    LET circles == detectCircles(samples)
        newDetections == [i \in 1..Len(circles) |->
                            [center |-> Point(circles[i].x, circles[i].y),
                             radius |-> circles[i].radius,
                             confidence |-> circles[i].confidence]]
    IN  updateTrackedCones(tracked, newDetections, given, currentTime)

\* The frames: for each, the positions of non-zero confidence in scan order.
\* A cone near (100, 100) seen large, small, at two radii, beside a second
\* small one, or moved by 60 px; a far cone below the threshold or above it.
ConeFrames ==
    { <<>>,
      << Circle(100, 100, 49, 900) >>,
      << Circle(160, 100, 49, 900) >>,
      << Circle(100, 100, 5, 700), Circle(100, 100, 49, 900) >>,
      << Circle(100, 100, 5, 700), Circle(110, 100, 5, 900), Circle(300, 100, 7, 600) >>,
      << Circle(100, 100, 5, 900), Circle(300, 200, 7, 700) >> }

\* The coordinateTransform argument: undefined, an invalid transform, or the
\* transform calculateHomography returns for four markers.
GivenTransforms ==
    { None,
      Some(InvalidTransform),
      Some(calculateHomography(
               [i \in 1..4 |-> [id |-> TrackerOrder[i],
                                center |-> CornerAt([ox |-> 100, oy |-> 100,
                                                     w |-> 200, h |-> 200],
                                                    TrackerOrder[i])]])) }

\* The time between two calls: the 200 ms interval of the overlay, or a pause.
FrameGaps == {200, 1200}

DetectorWindowEnd == StartTime + MaxConeFrames * 400

\* detectCones on a frame, currentTime later than the call before.
DetectConesOnFrame ==
    \E samples \in ConeFrames, given \in GivenTransforms, gap \in FrameGaps :
        /\ now + gap <= DetectorWindowEnd
        /\ now' = now + gap
        /\ trackedCones' = detectCones(trackedCones, samples, given, now')
        /\ ret' = [op |-> "detectCones", transform |-> given, cones |-> trackedCones']
        /\ UNCHANGED <<handoffVars, sessionVars, consensusVars, homographyVars, overlayVars, trackerVars>>

\* detectCones when the canvas gives no 2d context: [] and nothing else.
DetectConesNoContext ==
    \E given \in GivenTransforms :
        /\ ret' = [op |-> "detectCones", transform |-> given, cones |-> <<>>]
        /\ UNCHANGED <<handoffVars, now, sessionVars, consensusVars, homographyVars, overlayVars,
                       trackingVars>>

ClearTrackedCones ==
    /\ trackedCones' = <<>>
    /\ ret' = [op |-> "clearTrackedCones"]
    /\ UNCHANGED <<handoffVars, now, sessionVars, consensusVars, homographyVars, overlayVars, trackerVars>>

NextDetector ==
    \/ DetectConesOnFrame
    \/ DetectConesNoContext
    \/ ClearTrackedCones

SpecDetector == Init /\ [][NextDetector]_vars

\* ------------------------------------------------------------------ cone tracking

MaxTrackCalls == 3   \* detectCones calls' worth of time (600 ms each) that tracking is followed

\* The frames: one cone at (100, 100), or 60 px or 40 px to its right, and two
\* small cones 10 px apart.
TrackFrames ==
    { <<>>,
      << Circle(100, 100, 9, 900) >>,
      << Circle(160, 100, 9, 900) >>,
      << Circle(140, 100, 9, 900) >>,
      << Circle(100, 100, 5, 700), Circle(110, 100, 5, 900) >> }

\* The circles detectCones hands to updateTrackedCones.
AcceptedDetections(samples) ==
    LET circles == detectCircles(samples)
    IN  [i \in 1..Len(circles) |->
            [center |-> Point(circles[i].x, circles[i].y),
             radius |-> circles[i].radius,
             confidence |-> circles[i].confidence]]

Ids(cones) == { cones[i].id : i \in 1..Len(cones) }

TrackingWindowEnd == StartTime + MaxTrackCalls * 600

\* detectCones(imageData) on a frame. The record of the call keeps the tracked
\* cones before it, its Date.now(), the accepted circles, the returned list,
\* and the ids of all cones dropped as stale so far.
TrackConesOnFrame ==
    \E samples \in TrackFrames, gap \in FrameGaps :
        /\ now + gap <= TrackingWindowEnd
        /\ now' = now + gap
        /\ trackedCones' = detectCones(trackedCones, samples, None, now')
        /\ ret' = [op |-> "detectCones",
                   transform |-> None,
                   before |-> trackedCones,
                   at |-> now',
                   detections |-> AcceptedDetections(samples),
                   cones |-> trackedCones',
                   retired |-> (IF ret.op = "detectCones" THEN ret.retired ELSE {})
                                  \cup Ids(filterStaleCones(trackedCones, now').stale)]
        /\ UNCHANGED <<handoffVars, sessionVars, consensusVars, homographyVars, overlayVars,
                       trackerVars>>

NextConeTracking == TrackConesOnFrame

SpecConeTracking == Init /\ [][NextConeTracking]_vars

\* ------------------------------------------------------------------ processScanSession

MaxImages == 2       \* captured images processScanSession works through

\* The images of the captured slots: none or one cone near (100, 100), the
\* cone 60 px further, and a small cone with a second one far from it.
ScanFrames ==
    { <<>>,
      << Circle(100, 100, 49, 900) >>,
      << Circle(160, 100, 49, 900) >>,
      << Circle(100, 100, 5, 900), Circle(300, 200, 7, 700) >> }

\* What calculateHomography(capture.trackers) returns for a captured slot.
ScanTransforms == { Get(g) : g \in GivenTransforms \ {None} }

\* A surface coordinate as the number the consensus analysis computes with;
\* the transforms of ScanTransforms give whole millimetres.
Millimetres(f) == f[1] \div f[2]

\* The arrays returned by detectCones hold the detector's cone objects, so a
\* result read after a later detectCones call shows each cone as that call
\* left it; a cone the detector dropped stays as it was.
ReadThrough(results, tracked) ==
    [i \in 1..Len(results) |->
        [results[i] EXCEPT !.cones =
            [k \in 1..Len(results[i].cones) |->
                LET held == { j \in 1..Len(tracked) : tracked[j].id = results[i].cones[k].id }
                IN  IF held = {} THEN results[i].cones[k]
                    ELSE tracked[CHOOSE j \in held : TRUE]]]]

\* The per-image results as performConsensusAnalysis reads them.
ConsensusView(results) ==
    [i \in 1..Len(results) |->
        [imageId |-> results[i].imageId,
         cones |-> [k \in 1..Len(results[i].cones) |->
                      LET c == results[i].cones[k]
                      IN  Cone(c.id,
                               IF c.surfacePosition = Null THEN Null
                               ELSE Point(Millimetres(c.surfacePosition.x),
                                          Millimetres(c.surfacePosition.y)),
                               c.confidence)]]]

\* One turn of the loop of processScanSession: processIndividualImage on the
\* next valid capture with the processor's one ConeDetector, and the push of
\* its result. `recorded` keeps the cones as they were when pushed and `at`
\* the Date.now() of the detectCones call.
ProcessIndividualImage ==
    \E samples \in ScanFrames, transformMatrix \in ScanTransforms, gap \in FrameGaps :
        /\ processing = None
        /\ Len(imageResults) < MaxImages
        /\ now' = now + gap
        /\ trackedCones' = detectCones(trackedCones, samples, Some(transformMatrix), now')
        /\ imageResults' =
              Append(ReadThrough(imageResults, trackedCones'),
                     [imageId |-> OPTIMAL_POSITIONS[Len(imageResults) + 1].id,
                      cones |-> trackedCones',
                      recorded |-> trackedCones',
                      at |-> now'])
        /\ ret' = [op |-> "processIndividualImage", cones |-> trackedCones']
        /\ UNCHANGED <<handoffVars, sessionVars, processing, homographyVars, overlayVars,
                       trackerVars>>

\* The end of the loop: the consensus analysis of the collected results.
AnalyzeScan ==
    /\ processing = None
    /\ Len(imageResults) >= 1
    /\ LET consensusAnalysis == performConsensusAnalysis(ConsensusView(imageResults))
       IN  processing' = Some([consensusAnalysis |-> consensusAnalysis,
                               cones |-> FinalCones(consensusAnalysis)])
    /\ ret' = [op |-> "performConsensusAnalysis"]
    /\ UNCHANGED <<handoffVars, now, sessionVars, imageResults, homographyVars, overlayVars,
                   trackingVars>>

NextScan ==
    \/ ProcessIndividualImage
    \/ AnalyzeScan

SpecScan == Init /\ [][NextScan]_vars

\* ------------------------------------------------------------------ ConeScanningOverlay

TRACKER_CONFIG == [staleThreshold |-> 2000, cleanupThreshold |-> 3000]

\* How a frame sees a marker: not tracked, seen 100 ms ago, or last seen 2500 ms ago.
MarkerStates == {"absent", "fresh", "stale"}

LastSeenOf(state) == IF state = "fresh" THEN now - 100 ELSE now - 2500

\* The detectedTrackers prop of a frame: the tracked markers on the square at
\* (100, 100), each with the time it was last seen.
RECURSIVE FrameTrackers(_, _)
FrameTrackers(seen, i) ==
    IF i > Len(TrackerOrder) THEN <<>>
    ELSE LET id == TrackerOrder[i]
             rest == FrameTrackers(seen, i + 1)
         IN  IF seen[id] = "absent" THEN rest
             ELSE << [id |-> id,
                      center |-> CornerAt([ox |-> 100, oy |-> 100, w |-> 200, h |-> 200], id),
                      lastSeen |-> LastSeenOf(seen[id])] >> \o rest

\* All four markers are tracked and none is older than the stale threshold.
AllFresh(trackers) ==
    \A id \in TrackerID :
        /\ TrackerMapGet(trackers, id) # Null
        /\ now - TrackerMapGet(trackers, id).lastSeen <= TRACKER_CONFIG.staleThreshold

\* The effect run on retained state prev: what a retaining overlay would keep.
EffectTransformRetaining(aligned, trackers, prev) ==
    IF aligned /\ Len(trackers) >= 4 THEN calculateHomography(trackers) ELSE prev

\* The effect on [detectedTrackers, alignmentStatus.isAligned]: the new
\* coordinateTransform state.
EffectTransform(aligned, trackers, prev) ==
    IF aligned /\ Len(trackers) >= 4 THEN calculateHomography(trackers) ELSE Null

\* A frame: the parent renders the overlay with new props and the update
\* effect has run on them.
Frame ==
    \E seen \in [TrackerID -> MarkerStates], aligned \in BOOLEAN :
        LET trackers == FrameTrackers(seen, 1)
        IN  /\ detectedTrackers' = trackers
            /\ isAligned' = aligned
            /\ coordinateTransform' = EffectTransform(aligned, trackers, coordinateTransform)
            /\ transform' = IF aligned /\ Len(trackers) >= 4
                            THEN TransformAfter(transform, trackers)
                            ELSE transform
            /\ freshSeen' = (freshSeen \/ AllFresh(trackers))
            /\ ret' = [op |-> "render"]
            /\ UNCHANGED <<handoffVars, now, currentSession, lastCapturePosition, captureCallbacks, succ,
                           consensusVars, trackingVars, isScanning>>

\* startScanning returns at once when the status is not aligned.
StartScanning ==
    /\ isScanning' = IF ~isAligned THEN isScanning ELSE TRUE
    /\ trackedCones' = IF ~isAligned THEN trackedCones ELSE <<>>
    /\ ret' = [op |-> "startScanning"]
    /\ UNCHANGED <<handoffVars, now, currentSession, lastCapturePosition, captureCallbacks, succ,
                   consensusVars, trackerVars, homographyVars, isAligned, coordinateTransform, freshSeen>>

StopScanning ==
    /\ isScanning' = FALSE
    /\ trackedCones' = <<>>
    /\ ret' = [op |-> "stopScanning"]
    /\ UNCHANGED <<handoffVars, now, currentSession, lastCapturePosition, captureCallbacks, succ,
                   consensusVars, trackerVars, homographyVars, isAligned, coordinateTransform, freshSeen>>

\* What the camera shows while the overlay scans: no cone, or one.
OverlayFrames == { <<>>, << Circle(100, 100, 49, 900) >> }

\* The 200 ms interval: detectCones(imageData, coordinateTransform || undefined).
DetectCones ==
    /\ isScanning
    /\ \E samples \in OverlayFrames :
          LET given == IF coordinateTransform = Null THEN None
                       ELSE Some(coordinateTransform)
          IN  /\ trackedCones' = detectCones(trackedCones, samples, given, now)
              /\ ret' = [op |-> "detectCones", transform |-> given, cones |-> trackedCones']
    /\ UNCHANGED <<handoffVars, now, currentSession, lastCapturePosition, captureCallbacks, succ,
                   consensusVars, homographyVars, overlayVars, trackerVars>>

NextOverlay ==
    \/ Frame
    \/ StartScanning
    \/ StopScanning
    \/ DetectCones

SpecOverlay == Init /\ [][NextOverlay]_vars

\* ------------------------------------------------------------------ QRTrackerOverlay

Positions == <<"topLeft", "topRight", "bottomLeft", "bottomRight">>

\* The config prop: the code of each corner and the target rectangle in pixels.
trackerConfig ==
    [topLeft |-> "TL_TRACKER_001", topRight |-> "TR_TRACKER_002",
     bottomLeft |-> "BL_TRACKER_003", bottomRight |-> "BR_TRACKER_004",
     targetRectangle |-> [width |-> 595, height |-> 842]]

\* canvas.width / canvas.height after a scan: the size of the video.
CanvasSize == [width |-> 1920, height |-> 1080]

\* A rotation is atan2(y, x) * 180 / PI - minus degrees, kept as <<y, x>> and
\* minus; a scale is sqrt(s) / over, kept as s and over.
Rotation(y, x, minus) == [atan2 |-> <<y, x>>, minus |-> minus]
Scale(s, over) == [sqrt |-> s, over |-> over]

\* Math.abs(rotation) < 10: the angle of (x, y) is within 10 degrees of minus
\* degrees; tan(10 deg) = 0.176327 to the precision pixel coordinates need.
RotationWithin(rotation) ==
    LET y == rotation.atan2[1]
        x == rotation.atan2[2]
    IN  IF rotation.minus = 0
        THEN (x = 0 /\ y = 0) \/ (x > 0 /\ Abs(y) * 1000000 < 176327 * x)
        ELSE y > 0 /\ Abs(x) * 1000000 < 176327 * y

\* Math.abs(scale - 1) < 0.2, on the squares.
ScaleWithin(scale) ==
    /\ 64 * scale.over * scale.over < 100 * scale.sqrt
    /\ 100 * scale.sqrt < 144 * scale.over * scale.over

\* trackers.find(t => t.position === position)
FindByPosition(trackers, position) ==
    LET found == {i \in 1..Len(trackers) : trackers[i].position = position}
    IN  IF found = {} THEN Null
        ELSE trackers[CHOOSE i \in found : \A j \in found : i <= j]

\* trackers.filter(t => currentTime - t.lastSeen > STALE_THRESHOLD).map(t => t.position)
RECURSIVE StalePositions(_, _)
StalePositions(trackers, currentTime) ==
    IF trackers = <<>> THEN <<>>
    ELSE (IF currentTime - Head(trackers).lastSeen > 2000
          THEN <<Head(trackers).position>> ELSE <<>>)
         \o StalePositions(Tail(trackers), currentTime)

\* [...].filter(pos => !foundTrackers.has(pos))
RECURSIVE MissingPositions(_, _)
MissingPositions(trackers, positions) ==
    IF positions = <<>> THEN <<>>
    ELSE (IF FindByPosition(trackers, Head(positions)) = Null
          THEN <<Head(positions)>> ELSE <<>>)
         \o MissingPositions(trackers, Tail(positions))

\* Mutant of calculateAlignment's gate: stale markers do not block alignment.
AlignedGateIgnoringStale(translation, rotation, scale, missingTrackers, staleTrackers) ==
    /\ Abs(translation.x) < 50
    /\ Abs(translation.y) < 50
    /\ RotationWithin(rotation)
    /\ ScaleWithin(scale)
    /\ Len(missingTrackers) = 0

\* The conjunction that decides isAligned.
AlignedGate(translation, rotation, scale, missingTrackers, staleTrackers) ==
    /\ Abs(translation.x) < 50
    /\ Abs(translation.y) < 50
    /\ RotationWithin(rotation)
    /\ ScaleWithin(scale)
    /\ Len(missingTrackers) = 0
    /\ Len(staleTrackers) = 0

calculateAlignment(trackers, currentTime) ==
    LET staleTrackers == StalePositions(trackers, currentTime)
        missingTrackers == MissingPositions(trackers, Positions)
        trivial == [isAligned |-> FALSE,
                    translation |-> [x |-> 0, y |-> 0],
                    rotation |-> Rotation(0, 1, 0),
                    scale |-> Scale(1, 1),
                    missingTrackers |-> missingTrackers,
                    staleTrackers |-> staleTrackers]
        topLeft == FindByPosition(trackers, "topLeft")
        topRight == FindByPosition(trackers, "topRight")
        bottomLeft == FindByPosition(trackers, "bottomLeft")
        bottomRight == FindByPosition(trackers, "bottomRight")
    IN  IF Len(trackers) < 3 THEN trivial
        ELSE IF topLeft = Null THEN trivial
        ELSE
          LET currentWidth2 == IF topRight # Null
                               THEN Dist2(topRight.center, topLeft.center) ELSE 0
              currentHeight2 == IF bottomLeft # Null
                                THEN Dist2(bottomLeft.center, topLeft.center) ELSE 0
              rotation == IF topRight # Null
                          THEN Rotation(topRight.center.y - topLeft.center.y,
                                        topRight.center.x - topLeft.center.x, 0)
                          ELSE IF bottomLeft # Null
                          THEN Rotation(bottomLeft.center.x - topLeft.center.x,
                                        bottomLeft.center.y - topLeft.center.y, 90)
                          ELSE Rotation(0, 1, 0)
              scale == IF currentWidth2 > 0
                       THEN Scale(currentWidth2, trackerConfig.targetRectangle.width)
                       ELSE IF currentHeight2 > 0
                       THEN Scale(currentHeight2, trackerConfig.targetRectangle.height)
                       ELSE Scale(1, 1)
              canvasCenter == [x |-> CanvasSize.width \div 2, y |-> CanvasSize.height \div 2]
              translation == [x |-> topLeft.center.x - canvasCenter.x,
                              y |-> topLeft.center.y - canvasCenter.y]
          IN  [isAligned |-> AlignedGate(translation, rotation, scale,
                                         missingTrackers, staleTrackers),
               translation |-> translation,
               rotation |-> rotation,
               scale |-> scale,
               missingTrackers |-> missingTrackers,
               staleTrackers |-> staleTrackers]

\* Where the camera sees the top-left marker: at the canvas centre, 49 px and
\* 50 px beside it.
TLCenters == {Point(960, 540), Point(1009, 500), Point(1010, 540)}

\* The top edge from the top-left to the top-right marker: level at the target
\* width, tilted just under and just over 10 degrees, and level just inside
\* and outside 1.2 and 0.8 times the target width.
TROffsets ==
    {Point(595, 0), Point(590, 104), Point(590, 105),
     Point(713, 0), Point(715, 0), Point(475, 0)}

CenterOf(position, tl, off) ==
    CASE position = "topLeft"     -> tl
      [] position = "topRight"    -> Point(tl.x + off.x, tl.y + off.y)
      [] position = "bottomLeft"  -> Point(tl.x, tl.y + 500)
      [] position = "bottomRight" -> Point(tl.x + off.x, tl.y + off.y + 500)

\* A registry holding the markers that seen does not give as absent.
RECURSIVE RegistryOf(_, _, _, _)
RegistryOf(seen, tl, off, i) ==
    IF i > Len(Positions) THEN <<>>
    ELSE LET position == Positions[i]
             rest == RegistryOf(seen, tl, off, i + 1)
         IN  IF seen[position] = "absent" THEN rest
             ELSE << [id |-> trackerConfig[position],
                      position |-> position,
                      center |-> CenterOf(position, tl, off),
                      lastSeen |-> LastSeenOf(seen[position])] >> \o rest

PositionSet == {Positions[i] : i \in 1..Len(Positions)}

AlignmentInputs ==
    { RegistryOf(seen, tl, off, 1) :
         seen \in [PositionSet -> MarkerStates], tl \in TLCenters, off \in TROffsets }

InitAlignment ==
    /\ InitCapture
    /\ InitConsensus
    /\ InitTransform
    /\ InitOverlayState
    /\ InitDetector
    /\ registry \in AlignmentInputs
    /\ alignment = InitialAlignmentStatus

\* The effect on [detectedTrackers]: calculateAlignment and setAlignmentStatus.
EvaluateAlignment ==
    /\ alignment' = calculateAlignment(registry, now)
    /\ ret' = [op |-> "calculateAlignment"]
    /\ UNCHANGED <<handoffVars, now, sessionVars, consensusVars, homographyVars, overlayVars, registry, detectorVars>>

NextAlignment == EvaluateAlignment

SpecAlignment == InitAlignment /\ [][NextAlignment]_vars

\* The codes jsQR can read in a frame: the four configured ones and a foreign one.
Codes ==
    {trackerConfig.topLeft, trackerConfig.topRight,
     trackerConfig.bottomLeft, trackerConfig.bottomRight, "FOREIGN_CODE"}

identifyTrackerPosition(data) ==
    IF data = trackerConfig.topLeft THEN "topLeft"
    ELSE IF data = trackerConfig.topRight THEN "topRight"
    ELSE IF data = trackerConfig.bottomLeft THEN "bottomLeft"
    ELSE IF data = trackerConfig.bottomRight THEN "bottomRight"
    ELSE "null"

\* prev.filter(t => t.position !== position)
RECURSIVE WithoutPosition(_, _)
WithoutPosition(prev, position) ==
    IF prev = <<>> THEN <<>>
    ELSE (IF Head(prev).position # position THEN <<Head(prev)>> ELSE <<>>)
         \o WithoutPosition(Tail(prev), position)

\* Mutant of RegisterTracker: the detection is appended, nothing is replaced.
RegisterTrackerAppending(prev, tracker) == Append(prev, tracker)

\* setDetectedTrackers(prev => [...prev.filter(...), tracker])
RegisterTracker(prev, tracker) ==
    Append(WithoutPosition(prev, tracker.position), tracker)

\* Mutant of CleanUp: markers are dropped as soon as they reach the stale age.
RECURSIVE CleanUpAtStaleAge(_, _)
CleanUpAtStaleAge(prev, currentTime) ==
    IF prev = <<>> THEN <<>>
    ELSE (IF currentTime - Head(prev).lastSeen < 2000 THEN <<Head(prev)>> ELSE <<>>)
         \o CleanUpAtStaleAge(Tail(prev), currentTime)

\* prev.filter(t => currentTime - t.lastSeen < CLEANUP_THRESHOLD)
RECURSIVE CleanUp(_, _)
CleanUp(prev, currentTime) ==
    IF prev = <<>> THEN <<>>
    ELSE (IF currentTime - Head(prev).lastSeen < 3000 THEN <<Head(prev)>> ELSE <<>>)
         \o CleanUp(Tail(prev), currentTime)

\* GridUtils.filterStaleTrackers
filterStaleTrackers(trackers, currentTime) ==
    [fresh |-> SelectSeq(trackers,
                  LAMBDA t : ~(currentTime - t.lastSeen > TRACKER_CONFIG.staleThreshold)),
     stale |-> SelectSeq(trackers,
                  LAMBDA t : currentTime - t.lastSeen > TRACKER_CONFIG.staleThreshold)]

\* The markers may be in view during the first MaxDetectScans scans; scanning
\* goes on until the registry is empty again.
DetectWindowEnd == StartTime + MaxDetectScans * 100

\* The interval callback on a video that has no frame yet: it returns at once.
ScanNotReady ==
    /\ ret.op \in {"new", "scanNotReady"}
    /\ now + 100 <= DetectWindowEnd
    /\ now' = now + 100
    /\ ret' = [op |-> "scanNotReady"]
    /\ UNCHANGED <<handoffVars, sessionVars, consensusVars, homographyVars, overlayVars, trackingVars>>

\* The interval callback, 100 ms after the last: jsQR reads at most one code,
\* a recognised one replaces the record of its corner, old records are dropped,
\* and the alignment effect runs on the new list.
ScanForQRCodes ==
    /\ now + 100 <= DetectWindowEnd \/ registry # <<>>
    /\ now' = now + 100
    /\ \E code \in IF now + 100 <= DetectWindowEnd THEN Codes \cup {"null"} ELSE {"null"} :
          LET position == IF code = "null" THEN "null" ELSE identifyTrackerPosition(code)
              tracker == [id |-> code,
                          position |-> position,
                          center |-> CenterOf(position, Point(960, 540), Point(595, 0)),
                          lastSeen |-> now']
              registered == IF position = "null" THEN registry
                            ELSE RegisterTracker(registry, tracker)
              cleaned == CleanUp(registered, now')
          IN  /\ registry' = cleaned
              /\ alignment' = calculateAlignment(cleaned, now')
              /\ ret' = [op |-> "scanForQRCodes",
                         position |-> position,
                         replaced |-> (position # "null"
                                       /\ FindByPosition(registry, position) # Null),
                         dropped |-> Len(registered) - Len(cleaned)]
    /\ UNCHANGED <<handoffVars, sessionVars, consensusVars, homographyVars, overlayVars, detectorVars>>

NextTracker ==
    \/ ScanNotReady
    \/ ScanForQRCodes

SpecTracker == Init /\ [][NextTracker]_vars

\* ------------------------------------------------------------------ alignment quality

\* The statuses given to processAlignment: aligned or not, with any number of
\* the four corners listed as missing and as stale.
QualityStatuses ==
    { [InitialAlignmentStatus EXCEPT
          !.isAligned = aligned,
          !.missingTrackers = SubSeq(Positions, 1, m),
          !.staleTrackers = SubSeq(Positions, 1, s)] :
        aligned \in BOOLEAN, m \in 0..Len(Positions), s \in 0..Len(Positions) }

InitQuality ==
    /\ InitCapture
    /\ InitConsensus
    /\ InitTransform
    /\ InitOverlayState
    /\ InitDetector
    /\ registry = <<>>
    /\ alignment \in QualityStatuses

\* processAlignment on the alignment status of the frame; the call's record
\* keeps the score that was compared with minAlignmentQuality.
GateOnStatus ==
    \E trackers \in {TL_Empty, TL_A} :
        /\ ret' = [op |-> "processAlignment",
                   alignmentStatus |-> alignment,
                   trackers |-> trackers,
                   quality |-> calculateAlignmentQuality(alignment),
                   result |-> GateResultUnder(managerConfig, alignment, trackers)]
        /\ UNCHANGED <<now, currentSession, lastCapturePosition, captureCallbacks, succ,
                       downstreamVars>>

NextQuality ==
    \/ StartSession
    \/ GateOnStatus
    \/ Reset

SpecQuality == InitQuality /\ [][NextQuality]_vars

\* ------------------------------------------------------------------ AutoCaptureOverlay driver loop

DriverInterval == 100   \* setInterval(..., 100)

\* The alignmentStatus and detectedTrackers props of a tick: an aligned status
\* has no missing and no stale marker, and the camera is at one of two places
\* 50 px apart, so that a qualifying place exists after every capture.
DriverInputs ==
    { <<ST_NotAligned, TL_Edge>>, <<ST_Aligned, TL_A>>, <<ST_Aligned, TL_Edge>> }

\* startScanning, pressed while aligned: the one session the loop then drives.
DriverStart ==
    /\ currentSession = Null
    /\ StartSession

\* The timer runs for one interval. Time is followed up to the end of the wait
\* after a capture; the gate reads nothing of it beyond that.
IntervalElapses ==
    /\ currentSession # Null
    /\ currentSession.lastCaptureTime # None
    /\ now - Get(currentSession.lastCaptureTime) < config.timeBetweenCaptures
    /\ now' = now + DriverInterval
    /\ ret' = [op |-> "interval"]
    /\ UNCHANGED <<currentSession, lastCapturePosition, captureCallbacks, succ, downstreamVars>>

\* The conditions of a tick that qualify for a capture: an aligned status,
\* the wait since the last capture over, and the camera moved by the movement
\* threshold from the last capture position.
Qualifies(input) ==
    /\ input[1].isAligned
    /\ IF currentSession.lastCaptureTime = None THEN TRUE
       ELSE now - Get(currentSession.lastCaptureTime) >= config.timeBetweenCaptures
    /\ IF lastCapturePosition = Null THEN TRUE
       ELSE IF estimateCurrentPosition(input[2]) = Null THEN FALSE
       ELSE ~DistanceBelow(estimateCurrentPosition(input[2]), lastCapturePosition,
                           config.movementThreshold)

\* Mutant of DriverTickOn: the callback never calls executeCapture.
DriverTickOnWithoutCapture(input, canvas) ==
    /\ currentSession # Null
    /\ ret' = [op |-> "driverTick",
               result |-> GateResult(input[1], input[2]),
               qualifying |-> Qualifies(input),
               canvas |-> canvas,
               wasComplete |-> currentSession.isComplete,
               captured |-> FALSE]
    /\ UNCHANGED <<now, currentSession, lastCapturePosition, succ, captureCallbacks,
                   downstreamVars>>

\* One run of the interval callback: processAlignment, and executeCapture with
\* the same props when it says shouldCapture.
DriverTickOn(input, canvas) ==
    LET result == GateResult(input[1], input[2])
        frame == [status |-> input[1], trackers |-> input[2], img |-> "imgA"]
        target == FindTarget(currentSession.positions)
        done == result.shouldCapture /\ canvas = "ok" /\ target # 0
    IN  /\ currentSession # Null
        /\ IF done
           THEN /\ currentSession' = Captured(currentSession, target, frame)
                /\ lastCapturePosition' =
                      IF estimateCurrentPosition(frame.trackers) # Null
                      THEN estimateCurrentPosition(frame.trackers)
                      ELSE lastCapturePosition
                /\ succ' = succ + 1
           ELSE UNCHANGED <<currentSession, lastCapturePosition, succ>>
        /\ ret' = [op |-> "driverTick",
                   result |-> result,
                   qualifying |-> Qualifies(input),
                   canvas |-> canvas,
                   wasComplete |-> currentSession.isComplete,
                   captured |-> done]
        /\ UNCHANGED <<now, captureCallbacks, downstreamVars>>

DriverTick ==
    \E input \in DriverInputs, canvas \in CanvasOutcomes : DriverTickOn(input, canvas)

\* A tick under qualifying conditions.
QualifyingTick ==
    \E input \in DriverInputs, canvas \in CanvasOutcomes :
        /\ currentSession # Null
        /\ Qualifies(input)
        /\ DriverTickOn(input, canvas)

NextDriver ==
    \/ DriverStart
    \/ IntervalElapses
    \/ DriverTick

\* The interval keeps firing, and qualifying conditions recur.
SpecDriver ==
    /\ Init
    /\ [][NextDriver]_vars
    /\ WF_vars(IntervalElapses)
    /\ WF_vars(DriverTick)
    /\ SF_vars(QualifyingTick)

\* ------------------------------------------------------------------ claims: capture session

HasSession == currentSession # Null
TargetCount == Len(OPTIMAL_POSITIONS)

GateActive == HasSession /\ ~currentSession.isComplete
GateQualityOk(status) == calculateAlignmentQuality(status) >= config.minAlignmentQuality
GateNoPriorCapture == currentSession.capturesCompleted = 0
GateSpacingOk ==
    \/ GateNoPriorCapture
    \/ now - Get(currentSession.lastCaptureTime) >= config.timeBetweenCaptures
GateMovedOk(trackers) ==
    \/ GateNoPriorCapture
    \/ /\ lastCapturePosition # Null
       /\ estimateCurrentPosition(trackers) # Null
       /\ ~DistanceBelow(estimateCurrentPosition(trackers), lastCapturePosition,
                         config.movementThreshold)

\* C2: processAlignment returns shouldCapture=true if and only if a session is
\* active and the alignment quality is >= 0.8, no capture was made or 2000 ms
\* have passed since the last one, and the centroid of the markers is >= 50 px
\* from the centroid recorded at the last capture, the last condition being
\* waived only when no prior capture exists.
C2_GateAsClaimed ==
    ret.op = "processAlignment" =>
        (ret.result.shouldCapture <=>
            /\ GateActive
            /\ GateQualityOk(ret.alignmentStatus)
            /\ GateSpacingOk
            /\ GateMovedOk(ret.trackers))

\* C3: once a slot is captured no later operation on the session changes it,
\* and executeCapture writes only to a slot that was uncaptured at the call,
\* leaving every other slot as it was.
C3_CapturedSlotImmutable ==
    [][(HasSession /\ ret'.op \notin {"startSession", "reset"})
        => /\ currentSession' # Null
           /\ \A i \in 1..Len(currentSession.positions) :
                 currentSession.positions[i].captured
                    => currentSession'.positions[i] = currentSession.positions[i]
           /\ (ret'.op = "executeCapture" /\ ret'.result)
                 => /\ ~currentSession.positions[ret'.target].captured
                    /\ currentSession'.positions[ret'.target].captured
                    /\ \A i \in 1..Len(currentSession.positions) :
                          i # ret'.target
                             => currentSession'.positions[i] = currentSession.positions[i]]_vars

\* C3 witness: a capture has just succeeded in a session that already held a
\* captured slot, at a later instant than that slot's capture.
C3_Witness ==
    /\ HasSession /\ ret.op = "executeCapture" /\ ret.result /\ ret.target = 3
    /\ currentSession.positions[1].captured
    /\ Get(currentSession.positions[1].timestamp) < Get(currentSession.positions[3].timestamp)
    /\ currentSession.positions[1].imageData # currentSession.positions[3].imageData

\* C4: each successful executeCapture fills an uncaptured slot whose priority
\* number is least among the uncaptured slots, so that no captured slot has a
\* greater priority number than an uncaptured one.
C4_LowestPriorityFirst ==
    /\ [][(HasSession /\ ret'.op = "executeCapture" /\ ret'.result)
            => \A j \in Uncaptured(currentSession.positions) :
                  currentSession.positions[ret'.target].priority
                     <= currentSession.positions[j].priority]_vars
    /\ [](HasSession =>
            \A i, j \in 1..Len(currentSession.positions) :
                (currentSession.positions[i].captured /\ ~currentSession.positions[j].captured)
                    => currentSession.positions[i].priority
                          <= currentSession.positions[j].priority)

\* C4 witness: a capture has just filled a slot of priority 3 while a slot of
\* priority 4 is still uncaptured.
C4_Witness ==
    /\ HasSession /\ ret.op = "executeCapture" /\ ret.result
    /\ currentSession.positions[ret.target].priority = 3
    /\ ~currentSession.positions[6].captured

\* C5: processScanSession on a session that is not complete rejects before any
\* processing: no ProcessingResult, no detectCones call, session unchanged.
C5_IncompleteSessionRejected ==
    [][(HasSession /\ ~currentSession.isComplete /\ ret'.op = "processScanSession")
        => /\ ret'.outcome.threw = "Scan session is not complete"
           /\ ret'.outcome.result = None
           /\ ret'.outcome.detectCalls = 0
           /\ currentSession' = currentSession]_vars

\* C5 witness: processScanSession has just rejected a session that holds
\* captured slots but is not complete.
C5_Witness ==
    /\ HasSession /\ ~currentSession.isComplete
    /\ currentSession.capturesCompleted >= 2
    /\ ret.op = "processScanSession"
    /\ ret.outcome.threw = "Scan session is not complete"

\* ------------------------------------------------------------------ claims: consensus

Analysis == Get(processing).consensusAnalysis
Observations == CollectDetections(imageResults)

\* The sum of term[i] over the indices i in S.
RECURSIVE SumOver(_, _)
SumOver(S, term) ==
    IF S = {} THEN 0
    ELSE LET i == CHOOSE j \in S : TRUE
         IN  term[i] + SumOver(S \ {i}, term)

\* The confidence-weighted mean of the positions of the observations G.
WeightedMean(G, obs) ==
    LET total == SumOver(G, [i \in G |-> obs[i].confidence])
    IN  [x |-> Frac(SumOver(G, [i \in G |-> obs[i].surfacePosition.x * obs[i].confidence]), total),
         y |-> Frac(SumOver(G, [i \in G |-> obs[i].surfacePosition.y * obs[i].confidence]), total)]

Near(obs, i, j) ==
    WithinRadius(obs[i].surfacePosition, obs[j].surfacePosition,
                 processingConfig.clusteringRadius)

\* G1, G2 and {k} split the observations into two groups of >= 2 points, each
\* within the clustering radius of one another, farther than the radius from
\* the other group, and one point farther than the radius from every other.
TwoGroupsAndOne(obs, G1, G2, k) ==
    /\ G1 \cup G2 \cup {k} = 1..Len(obs)
    /\ G1 \cap G2 = {} /\ k \notin G1 \cup G2
    /\ Cardinality(G1) >= 2 /\ Cardinality(G2) >= 2
    /\ \A i, j \in G1 : Near(obs, i, j)
    /\ \A i, j \in G2 : Near(obs, i, j)
    /\ \A i \in G1, j \in G2 : ~Near(obs, i, j)
    /\ \A j \in G1 \cup G2 : ~Near(obs, k, j)

IdsOf(detections) == {detections[i].id : i \in 1..Len(detections)}

\* C6: observations with distinct identities that form two well-separated
\* groups of >= 2 points and one isolated point give, in every input order,
\* exactly two clusters and exactly one outlier, each cluster holding one group
\* at the confidence-weighted mean of that group's positions.
C6_TwoClustersOneOutlier ==
    processing # None =>
        \A k \in 1..Len(Observations), G1 \in SUBSET (1..Len(Observations)) :
          LET G2 == (1..Len(Observations)) \ (G1 \cup {k})
          IN  TwoGroupsAndOne(Observations, G1, G2, k) =>
                /\ Len(Analysis.clusteredCones) = 2
                /\ Len(Analysis.outlierDetections) = 1
                /\ Analysis.outlierDetections[1].id = Observations[k].id
                /\ \A G \in {G1, G2} :
                      \E c \in 1..2 :
                          /\ IdsOf(Analysis.clusteredCones[c].supportingDetections)
                                = {Observations[i].id : i \in G}
                          /\ Analysis.clusteredCones[c].position
                                = WeightedMean(G, Observations)

\* C6 witness: the analysis has run on two groups and an isolated point given
\* interleaved, the isolated point first, with unequal confidences in a group
\* (the weighted mean is not a whole number of millimetres).
C6_Witness ==
    /\ processing # None
    /\ Len(Observations) = 5
    /\ TwoGroupsAndOne(Observations, {2, 4}, {3, 5}, 1)
    /\ Len(Analysis.clusteredCones) = 2
    /\ Analysis.clusteredCones[1].position.x[2] # 1

\* C7: the confidence of every cluster whose member confidences lie in [0, 1],
\* and so of every final cone, lies in [0, 1].
C7_ClusterConfidenceInUnitInterval ==
    processing # None =>
        /\ \A c \in 1..Len(Analysis.clusteredCones) :
              (\A m \in 1..Len(Analysis.clusteredCones[c].supportingDetections) :
                   Analysis.clusteredCones[c].supportingDetections[m].confidence \in 0..1000)
                 => Analysis.clusteredCones[c].confidence \in 0..1000
        /\ \A c \in 1..Len(Get(processing).cones) :
              Get(processing).cones[c].confidence \in 0..1000

\* ------------------------------------------------------------------ claims: homography

\* The marker list holds exactly one tracker for each of the four identities.
OnePerIdentity(trackers) ==
    /\ Len(trackers) = 4
    /\ \A id \in TrackerID : \E i \in 1..4 : trackers[i].id = id

\* The four markers lie on the corners of an axis-aligned square, QR_01
\* top-left, QR_02 top-right, QR_03 bottom-right, QR_04 bottom-left.
OnSquare(trackers) ==
    /\ OnePerIdentity(trackers)
    /\ LET c1 == TrackerMapGet(trackers, "QR_01").center
           c2 == TrackerMapGet(trackers, "QR_02").center
           c3 == TrackerMapGet(trackers, "QR_03").center
           c4 == TrackerMapGet(trackers, "QR_04").center
           side == c2.x - c1.x
       IN  /\ side > 0
           /\ c2 = Point(c1.x + side, c1.y)
           /\ c3 = Point(c1.x + side, c1.y + side)
           /\ c4 = Point(c1.x, c1.y + side)

\* C8: for four markers on the corners of an axis-aligned square, the
\* transform of calculateHomography applied with transformPoint to each source
\* corner yields that corner's destination point (20,20), (190,20), (190,277),
\* (20,277).
C8_SquareCornersReachDestination ==
    (/\ OnSquare(detectedTrackers)
     /\ transform # Null
     /\ ret.op = "transformPoint")
        => \A i \in 1..4 :
              ret.point = TrackerMapGet(detectedTrackers, TrackerOrder[i]).center
                 => /\ ret.result # Null
                    /\ ret.result = [x |-> <<DstPoints[i][1], 1>>,
                                      y |-> <<DstPoints[i][2], 1>>]

\* C9: calculateHomography returns isValid=true only for exactly four
\* trackers, one for each identity; with fewer than four, more than four or an
\* identity absent it returns isValid=false with a null matrix.
C9_ValidOnlyForExactlyFour ==
    ret.op = "calculateHomography" =>
        /\ ret.result.isValid => OnePerIdentity(detectedTrackers)
        /\ ~OnePerIdentity(detectedTrackers)
              => /\ ~ret.result.isValid
                 /\ ret.result.homographyMatrix = None

\* ------------------------------------------------------------------ claims: overlay transform

\* The transform handed to detectCones at this tick.
Handed == ret.transform

\* C10 as stated: the transform handed to the detector is absent or invalid
\* until some frame has all four markers fresh, is recomputed and valid at every
\* frame with all four fresh, and at a frame where some marker is not fresh is
\* still the last valid computation.
C10_RetainedBetweenFreshFrames ==
    ret.op = "detectCones" =>
        /\ ~freshSeen => (Handed = None \/ ~Get(Handed).isValid)
        /\ AllFresh(detectedTrackers)
              => /\ Handed = Some(calculateHomography(detectedTrackers))
                 /\ Get(Handed).isValid
        /\ (freshSeen /\ ~AllFresh(detectedTrackers))
              => /\ transform # Null
                 /\ Handed = Some(transform)

\* C10 amended: the transform handed to the detector is the one computed from
\* the current frame's markers when that frame is aligned and tracks at least
\* four markers, and is absent at every other frame; nothing is retained from
\* an earlier computation.
C10_TransformOfCurrentFrameOnly ==
    ret.op = "detectCones" =>
        IF isAligned /\ Len(detectedTrackers) >= 4
        THEN /\ Handed = Some(calculateHomography(detectedTrackers))
             /\ Get(Handed).isValid
        ELSE Handed = None

\* C10 witness: an earlier frame produced a valid transform, the current frame
\* has all four markers fresh but is not aligned, and the detector has just
\* been handed no transform.
C10_Witness ==
    /\ ret.op = "detectCones"
    /\ transform # Null /\ transform.isValid
    /\ freshSeen /\ AllFresh(detectedTrackers) /\ ~isAligned
    /\ Handed = None

\* ------------------------------------------------------------------ claims: marker tracking

\* The number of tracked markers not older than the stale threshold.
FreshCount(trackers, currentTime) ==
    Cardinality({i \in 1..Len(trackers) : currentTime - trackers[i].lastSeen <= 2000})

\* C11: calculateAlignment returns isAligned=true only if |translation.x| < 50,
\* |translation.y| < 50, |rotation| < 10 degrees, |scale - 1| < 0.2, no marker
\* is missing and no marker is stale, all at once.
C11_AlignedOnlyWithinAllTolerances ==
    (ret.op = "calculateAlignment" /\ alignment.isAligned) =>
        /\ Abs(alignment.translation.x) < 50
        /\ Abs(alignment.translation.y) < 50
        /\ RotationWithin(alignment.rotation)
        /\ ScaleWithin(alignment.scale)
        /\ alignment.missingTrackers = <<>>
        /\ alignment.staleTrackers = <<>>
        /\ \A position \in PositionSet :
              /\ FindByPosition(registry, position) # Null
              /\ now - FindByPosition(registry, position).lastSeen <= 2000
        /\ alignment.translation.x = FindByPosition(registry, "topLeft").center.x - 960
        /\ alignment.translation.y = FindByPosition(registry, "topLeft").center.y - 540

\* C11 witness: an evaluation has returned isAligned=true for a top edge
\* tilted by almost 10 degrees with the top-left marker 49 px off the centre.
C11_Witness ==
    /\ ret.op = "calculateAlignment" /\ alignment.isAligned
    /\ alignment.translation.x = 49
    /\ alignment.rotation.atan2 = <<104, 590>>

\* rotation = 0 and scale = 1 as numbers.
RotationIsZero(rotation) ==
    IF rotation.minus = 0
    THEN rotation.atan2[1] = 0 /\ rotation.atan2[2] >= 0
    ELSE rotation.atan2[1] > 0 /\ rotation.atan2[2] = 0
ScaleIsOne(scale) == scale.sqrt = scale.over * scale.over

\* C12: with fewer than 3 fresh markers, however many stale markers are still
\* tracked, calculateAlignment returns isAligned=false, translation=(0,0),
\* rotation=0 and scale=1.
C12_TrivialBelowThreeFresh ==
    (ret.op = "calculateAlignment" /\ FreshCount(registry, now) < 3) =>
        /\ ~alignment.isAligned
        /\ alignment.translation = [x |-> 0, y |-> 0]
        /\ RotationIsZero(alignment.rotation)
        /\ ScaleIsOne(alignment.scale)

\* fresh, stale or missing: how an evaluation at this instant classes a corner.
Phase(trackers, position, currentTime) ==
    IF FindByPosition(trackers, position) = Null THEN "missing"
    ELSE IF currentTime - FindByPosition(trackers, position).lastSeen > 2000 THEN "stale"
    ELSE "fresh"

PhaseAfter(phase) ==
    CASE phase = "fresh" -> {"fresh", "stale"}
      [] phase = "stale" -> {"stale", "missing"}
      [] phase = "missing" -> {"missing"}

\* C13: a marker that is no longer detected while scans run every 100 ms is
\* fresh, then stale once now - lastSeen > 2000, then missing once
\* now - lastSeen reaches 3000, in that order and never skipping stale, and
\* isAligned is false at every evaluation made while a marker is stale or
\* missing.
C13_FreshStaleMissing ==
    /\ [][ret'.op = "scanForQRCodes" =>
            \A position \in PositionSet :
                /\ ret'.position # position
                      => Phase(registry', position, now')
                            \in PhaseAfter(Phase(registry, position, now))
                /\ FindByPosition(registry, position) # Null
                      => (Phase(registry', position, now') = "missing"
                            <=> now' - FindByPosition(registry, position).lastSeen >= 3000
                                /\ ret'.position # position)]_vars
    /\ [](ret.op = "scanForQRCodes" =>
            ((\E position \in PositionSet : Phase(registry, position, now) # "fresh")
                => ~alignment.isAligned))

\* C13 witness: a scan has just dropped a marker that was stale, at the moment
\* its age reached 3000 ms, while another marker is still stale.
C13_Witness ==
    /\ ret.op = "scanForQRCodes" /\ ret.dropped = 1
    /\ \E position \in PositionSet : Phase(registry, position, now) = "stale"
    /\ ~alignment.isAligned

\* How many records of the list are at this corner.
CountAt(trackers, position) ==
    Cardinality({i \in 1..Len(trackers) : trackers[i].position = position})

\* C14: the registry holds at most one record per marker identity, a new
\* detection replacing the record of its identity, so that every identity is in
\* exactly one of fresh, stale and missing.
C14_OneRecordPerIdentity ==
    /\ [](\A position \in PositionSet :
            LET parts == filterStaleTrackers(registry, now)
                missing == MissingPositions(registry, Positions)
            IN  /\ CountAt(registry, position) <= 1
                /\ CountAt(parts.fresh, position) + CountAt(parts.stale, position)
                      + Cardinality({i \in 1..Len(missing) : missing[i] = position}) = 1)
    /\ [][(ret'.op = "scanForQRCodes" /\ ret'.position # "null") =>
            /\ CountAt(registry', ret'.position) = 1
            /\ FindByPosition(registry', ret'.position).lastSeen = now']_vars

\* C14 witness: a detection has just replaced the record its corner already
\* had, with three corners tracked.
C14_Witness ==
    /\ ret.op = "scanForQRCodes" /\ ret.replaced
    /\ Len(registry) = 3

\* ------------------------------------------------------------------ claims: cone detector

\* The cones a detectCones call made with a valid transform, or without one,
\* has returned.
ValidGiven(given) == given # None /\ Get(given).isValid

\* Two returned cones are at least the suppression distance 0.7 * (r1 + r2) apart.
Separated(a, b) ==
    100 * Dist2(a.center, b.center) >= 49 * (a.radius + b.radius) * (a.radius + b.radius)

\* C15: after any sequence of detectCones calls, no two cones of the returned
\* list have centers closer than 0.7 * (r1 + r2).
C15_ReturnedConesSeparated ==
    ret.op = "detectCones" =>
        \A i \in 1..Len(ret.cones), j \in 1..Len(ret.cones) :
            i < j => Separated(ret.cones[i], ret.cones[j])

\* C16: every cone returned by a call without a valid transform has a null
\* surfacePosition, and every cone returned by a call with a valid transform
\* has the projection of its current center through that transform.
C16_SurfacePositionFollowsTransform ==
    ret.op = "detectCones" =>
        \A i \in 1..Len(ret.cones) :
            IF ValidGiven(ret.transform)
            THEN /\ ret.cones[i].surfacePosition # Null
                 /\ ret.cones[i].surfacePosition
                       = transformToSurface(ret.cones[i].center, Get(ret.transform))
            ELSE ret.cones[i].surfacePosition = Null

\* ------------------------------------------------------------------ claims: session hand-off

\* C17: once a session is complete and its completion has been notified, no
\* later operation of the manager changes a field of that session object or
\* of its slots, whatever the interleaving with the processScanSession calls
\* that still run on it: the object stays as it was handed over, and every
\* capture such a call reads is the capture as handed over.
C17_CompletedSessionImmutable ==
    /\ handed # Null =>
          /\ handed.atNotify.isComplete
          /\ handed.object = handed.atNotify
    /\ ret.op = "processIndividualImage" =>
          ret.capture = handed.atNotify.positions[ret.slot]

\* C17 witness: a processScanSession call resumes on the handed session after
\* the manager has started another session, captured into it and changed its
\* configuration.
C17_Witness ==
    /\ ret.op = "processIndividualImage"
    /\ handed # Null /\ ~handed.shared
    /\ currentSession # Null /\ currentSession.capturesCompleted > 0
    /\ managerConfig # DEFAULT_AUTO_CAPTURE_CONFIG
    /\ scans # <<>>

\* C18: for each session onScanComplete is called exactly once, at the capture
\* that completes it, and never for a session that is not complete, however
\* many times the overlay has subscribed to the capture events.
C18_CompletionHandledOnce ==
    /\ ret.op = "executeCapture" =>
          ret.completions = (IF ret.result /\ currentSession.isComplete THEN 1 ELSE 0)
    /\ currentSession # Null =>
          completeCalls = (IF currentSession.isComplete THEN 1 ELSE 0)

\* ------------------------------------------------------------------ claims: insufficient data

\* C19: processScanSession on a complete session of which no captured slot
\* yields usable data (no valid capture, or every image failing to process)
\* returns an empty result instead of raising an error.
C19_EmptyResultWithoutData ==
    (/\ ret.op = "processScanSession"
     /\ currentSession.isComplete
     /\ ret.outcome.detectCalls = 0)
        => /\ ret.outcome.threw = ""
           /\ ret.outcome.result # None
           /\ Get(ret.outcome.result).sourceImages = 0

\* Three points on one line (two of them coinciding included).
Collinear(a, b, c) ==
    (b.x - a.x) * (c.y - a.y) - (b.y - a.y) * (c.x - a.x) = 0

\* Four markers, one per identity, three or more of whose centers are
\* collinear or two of whose centers coincide.
Degenerate(trackers) ==
    /\ OnePerIdentity(trackers)
    /\ \E i, j, k \in 1..4 :
          /\ i < j /\ j < k
          /\ Collinear(trackers[i].center, trackers[j].center, trackers[k].center)

\* C20: for four degenerate marker centers calculateHomography returns
\* isValid=false, so that transformPoint returns null and no surface
\* coordinate is produced from them.
C20_DegenerateMarkersGiveInvalid ==
    Degenerate(detectedTrackers) =>
        /\ ret.op = "calculateHomography" => ~ret.result.isValid
        /\ ret.op = "transformPoint" => ret.result = Null

\* ------------------------------------------------------------------ claims: alignment quality

\* 1 - 0.5 * missing / 4 - 0.3 * stale / 4, not below 0, in thousandths.
PenaltyScore(status) ==
    Max(0, 1000 - 125 * Len(status.missingTrackers) - 75 * Len(status.staleTrackers))

\* C21 as stated: for every alignment status the score processAlignment
\* compares with minAlignmentQuality is
\* max(0, 1 - 0.5 * |missing| / 4 - 0.3 * |stale| / 4).
C21_QualityIsPenaltyScore ==
    ret.op = "processAlignment" =>
        ret.quality = PenaltyScore(ret.alignmentStatus)

\* C21 amended: the score is that penalty score for an aligned status and 0
\* for a status that is not aligned, and it is the score the gate compares
\* with minAlignmentQuality.
C21_QualityIsPenaltyScoreWhenAligned ==
    ret.op = "processAlignment" =>
        /\ ret.quality = (IF ret.alignmentStatus.isAligned
                          THEN PenaltyScore(ret.alignmentStatus) ELSE 0)
        /\ (currentSession # Null /\ ~currentSession.isComplete)
              => (ret.result.reason = "Alignment quality"
                    <=> ret.quality < managerConfig.minAlignmentQuality)

\* C21 witness: an active session is gated on an aligned status with one
\* missing and one stale marker, whose score 0.8 just passes the threshold.
C21_Witness ==
    /\ ret.op = "processAlignment"
    /\ currentSession # Null
    /\ ret.alignmentStatus.isAligned
    /\ Len(ret.alignmentStatus.missingTrackers) = 1
    /\ Len(ret.alignmentStatus.staleTrackers) = 1
    /\ ret.quality = 800
    /\ ret.result.reason # "Alignment quality"

\* ------------------------------------------------------------------ claims: processScanSession

\* The images in which the cone with this id was detected: its lastSeen in the
\* result pushed for the image is the time of that image's detectCones call.
ImagesDetecting(id) ==
    { i \in 1..Len(imageResults) :
        \E k \in 1..Len(imageResults[i].recorded) :
            /\ imageResults[i].recorded[k].id = id
            /\ imageResults[i].recorded[k].lastSeen = imageResults[i].at }

\* The images whose detections support a cluster.
SupportingImages(cluster) ==
    UNION { ImagesDetecting(cluster.supportingDetections[k].id) :
              k \in 1..Len(cluster.supportingDetections) }

\* C22: every cluster returned by processScanSession is supported by
\* detections from at least minConsensus different captured images, so a cone
\* detected in one image only is never a cluster.
C22_ClustersSupportedByDistinctImages ==
    processing # None =>
        \A c \in 1..Len(Get(processing).consensusAnalysis.clusteredCones) :
            Cardinality(SupportingImages(Get(processing).consensusAnalysis.clusteredCones[c]))
                >= processingConfig.minConsensus

\* C23: the cone list recorded for a captured image holds only cones detected
\* in that image, and a later image changes no cone of an earlier result.
C23_ImageResultsIndependent ==
    \A i \in 1..Len(imageResults) :
        /\ \A k \in 1..Len(imageResults[i].recorded) :
              imageResults[i].recorded[k].lastSeen = imageResults[i].at
        /\ imageResults[i].cones = imageResults[i].recorded

\* ------------------------------------------------------------------ claims: cluster variance

\* The distance, in hundredths of a millimetre, between a position and the
\* point whose coordinates are the fractions cx and cy.
DistanceTo(position, cx, cy) ==
    LET l == (cx[2] * cy[2]) \div GCD(cx[2], cy[2])
        dx == position.x * l - cx[1] * (l \div cx[2])
        dy == position.y * l - cy[1] * (l \div cy[2])
        v == dx * dx + dy * dy
    IN  IF v <= 200000 THEN ISqrt(v * 10000) \div l
        ELSE (5 * ISqrt(v * 400)) \div l

\* The mean distance of the members' positions from that point.
MeanDistanceFrom(detections, cx, cy) ==
    SumSeq([i \in 1..Len(detections) |->
               DistanceTo(detections[i].surfacePosition, cx, cy)]) \div Len(detections)

\* The plain centroid of the members' positions.
PlainCentroid(detections) ==
    LET n == Len(detections)
    IN  [x |-> Frac(SumSeq([i \in 1..n |-> detections[i].surfacePosition.x]), n),
         y |-> Frac(SumSeq([i \in 1..n |-> detections[i].surfacePosition.y]), n)]

AcceptedClusters ==
    IF processing = None THEN {}
    ELSE { Get(processing).consensusAnalysis.clusteredCones[c] :
             c \in 1..Len(Get(processing).consensusAnalysis.clusteredCones) }

\* C24 as stated: the positionVariance of every accepted cluster is the mean
\* distance of its members from the confidence-weighted centroid stored as the
\* cluster's position (to 0.05 mm, the rounding of the square roots).
C24_VarianceAboutStoredPosition ==
    \A cluster \in AcceptedClusters :
        Abs(cluster.positionVariance
              - MeanDistanceFrom(cluster.supportingDetections,
                                 cluster.position.x, cluster.position.y)) <= 5

\* C24 amended: the positionVariance of every accepted cluster is the mean
\* distance of its members from their plain, unweighted centroid (to 0.05 mm).
C24_VarianceAboutPlainCentroid ==
    \A cluster \in AcceptedClusters :
        LET centroid == PlainCentroid(cluster.supportingDetections)
        IN  Abs(cluster.positionVariance
                  - MeanDistanceFrom(cluster.supportingDetections,
                                     centroid.x, centroid.y)) <= 5

\* C24 witness: a cluster of three members whose weighted position is not
\* their plain centroid and whose variance is that of the plain centroid.
C24_Witness ==
    \E cluster \in AcceptedClusters :
        /\ Len(cluster.supportingDetections) = 3
        /\ cluster.position # PlainCentroid(cluster.supportingDetections)
        /\ cluster.positionVariance > 600
        /\ Abs(cluster.positionVariance
                 - MeanDistanceFrom(cluster.supportingDetections,
                                    cluster.position.x, cluster.position.y)) > 5

\* ------------------------------------------------------------------ claims: cone tracking

\* The tracked cones when updateTrackedCones comes to detection k of the call
\* recorded in ret, and after it has handled that detection.
ConesBefore(k) ==
    ProcessDetections(filterStaleCones(ret.before, ret.at).fresh,
                      SubSeq(ret.detections, 1, k - 1), 1, ret.transform, ret.at)

ConesAfter(k) ==
    ProcessDetections(filterStaleCones(ret.before, ret.at).fresh,
                      SubSeq(ret.detections, 1, k), 1, ret.transform, ret.at)

\* The tracked cones nearer to the detection than maxDetectionDistance.
ConesNear(detection, cones) ==
    { i \in 1..Len(cones) :
        Dist2(detection.center, cones[i].center)
            < CONE_CONFIG.maxDetectionDistance * CONE_CONFIG.maxDetectionDistance }

\* C25: a detection updates the tracked cone nearest to it when that cone is
\* nearer than 50 px and leaves the others as they were, and a cone with a
\* fresh id is created exactly when no tracked cone is within 50 px.
C25_DetectionUpdatesNearestCone ==
    ret.op = "detectCones" /\ "detections" \in DOMAIN ret =>
        \A k \in 1..Len(ret.detections) :
            LET detection == ret.detections[k]
                against == ConesBefore(k)
                after == ConesAfter(k)
                near == ConesNear(detection, against)
            IN  /\ near # {} =>
                      /\ Len(after) = Len(against)
                      /\ \E i \in near :
                            /\ \A j \in near : Dist2(detection.center, against[i].center)
                                                  <= Dist2(detection.center, against[j].center)
                            /\ after[i].id = against[i].id
                            /\ after[i].center = detection.center
                            /\ after[i].lastSeen = ret.at
                            /\ \A j \in 1..Len(against) : j # i => after[j] = against[j]
                /\ near = {} <=>
                      /\ Len(after) = Len(against) + 1
                      /\ after[Len(after)].id \notin Ids(against)
                      /\ after[Len(after)].center = detection.center

\* C26: every circle accepted in a detectCones call is represented by a
\* tracked cone of its own in the returned list, so no two accepted circles of
\* one frame update the same cone.
C26_AcceptedCirclesKeepOwnCone ==
    ret.op = "detectCones" /\ "detections" \in DOMAIN ret =>
        \A k \in 1..Len(ret.detections) :
            \E i \in 1..Len(ret.cones) :
                /\ ret.cones[i].center = ret.detections[k].center
                /\ ret.cones[i].radius = ret.detections[k].radius
                /\ ret.cones[i].confidence = ret.detections[k].confidence
                /\ ret.cones[i].lastSeen = ret.at

\* C27: a cone not matched for more than the 1000 ms staleness window is
\* absent from the result of the next detectCones call and its id never comes
\* back; every other tracked cone is still in the result under the id given
\* at its first detection.
C27_StaleConesLeaveForGood ==
    ret.op = "detectCones" /\ "retired" \in DOMAIN ret =>
        /\ \A i \in 1..Len(ret.before) :
              IF ret.at - ret.before[i].lastSeen > CONE_CONFIG.staleThreshold
              THEN ret.before[i].id \notin Ids(ret.cones)
              ELSE \E j \in 1..Len(ret.cones) :
                      /\ ret.cones[j].id = ret.before[i].id
                      /\ ret.cones[j].id[1] <= ret.before[i].lastSeen
                      /\ ret.cones[j].lastSeen >= ret.before[i].lastSeen
        /\ ret.retired \cap Ids(ret.cones) = {}
        /\ Cardinality(Ids(ret.cones)) = Len(ret.cones)

\* C27 witness: a call drops a stale cone and creates a cone at the same place
\* under a new id, while an earlier call had updated a cone under its old id.
C27_Witness ==
    /\ ret.op = "detectCones"
    /\ "retired" \in DOMAIN ret
    /\ \E i \in 1..Len(ret.before) :
          /\ ret.before[i].id \in ret.retired
          /\ ret.before[i].lastSeen > ret.before[i].id[1]
          /\ \E j \in 1..Len(ret.cones) :
                /\ ret.cones[j].center = ret.before[i].center
                /\ ret.cones[j].id # ret.before[i].id

\* ------------------------------------------------------------------ claims: capture count

CapturedSlots(session) ==
    { i \in 1..Len(session.positions) : session.positions[i].captured }

\* C28: in every state of a session capturesCompleted is the number of
\* positions with captured = true and lies between 0 and totalCapturesNeeded.
C28_CompletedCountsCapturedSlots ==
    currentSession # Null =>
        /\ currentSession.capturesCompleted = Cardinality(CapturedSlots(currentSession))
        /\ 0 <= currentSession.capturesCompleted
        /\ currentSession.capturesCompleted <= currentSession.totalCapturesNeeded

\* C28 witness: executeCapture is refused on a session whose slots are all
\* captured, and the count stays at totalCapturesNeeded.
C28_Witness ==
    /\ currentSession # Null
    /\ ret.op = "executeCapture"
    /\ ~ret.result
    /\ currentSession.capturesCompleted = currentSession.totalCapturesNeeded
    /\ Cardinality(CapturedSlots(currentSession)) = Len(OPTIMAL_POSITIONS)

\* ------------------------------------------------------------------ claims: partition of the observations

\* How often an observation is listed in a sequence of observations.
Occurrences(observations, v) ==
    Cardinality({ i \in 1..Len(observations) : observations[i] = v })

\* The observations with a surface position collected from the image results.
CollectedObservations == CollectDetections(ConsensusView(imageResults))

\* C29: every collected observation is in the supportingDetections of exactly
\* one cluster or in outlierDetections, never in both and never in two
\* clusters, and totalDetections is the sum of the cluster sizes plus the
\* number of outliers.
C29_ObservationsPartitioned ==
    processing # None =>
        LET analysis == Get(processing).consensusAnalysis
            clusters == analysis.clusteredCones
            holding(v) == { c \in 1..Len(clusters) :
                              Occurrences(clusters[c].supportingDetections, v) > 0 }
        IN  /\ \A i \in 1..Len(CollectedObservations) :
                  LET v == CollectedObservations[i]
                  IN  /\ Cardinality(holding(v)) <= 1
                      /\ (holding(v) # {}) # (Occurrences(analysis.outlierDetections, v) > 0)
                      /\ Occurrences(CollectedObservations, v) =
                            Occurrences(analysis.outlierDetections, v)
                              + SumSeq([c \in 1..Len(clusters) |->
                                          Occurrences(clusters[c].supportingDetections, v)])
            /\ analysis.totalDetections = Len(CollectedObservations)
            /\ analysis.totalDetections =
                  Len(analysis.outlierDetections)
                    + SumSeq([c \in 1..Len(clusters) |-> Len(clusters[c].supportingDetections)])

\* C29 witness: an analysis of two images that gives a cluster of two
\* distinct cones and leaves another observation as an outlier.
C29_Witness ==
    /\ processing # None
    /\ Len(imageResults) = 2
    /\ Len(Get(processing).consensusAnalysis.outlierDetections) >= 1
    /\ \E c \in 1..Len(Get(processing).consensusAnalysis.clusteredCones) :
          LET members == Get(processing).consensusAnalysis.clusteredCones[c].supportingDetections
          IN  \E a, b \in 1..Len(members) : members[a].id # members[b].id

\* ------------------------------------------------------------------ claims: driver loop

SessionComplete == currentSession # Null /\ currentSession.isComplete

\* No tick on a complete session is told to capture.
QuietWhenComplete ==
    (ret.op = "driverTick" /\ ret.wasComplete) => ~ret.result.shouldCapture

====
